---- MODULE Spec2Model ----
(***************************************************************************)
(* Upload-completion reconciliation pipeline of the cloud volume manager   *)
(* (src/server.js): the pre-upload duplicate guard, the single-file        *)
(* publisher, the part tracker, the part concatenator and the orphan       *)
(* reaper, over a model of the storage tree.                               *)
(*                                                                         *)
(* A string is a sequence of characters.  A character is a one-character   *)
(* string, or an atom ("UPLOAD_STAGING_DIR", "tmp", "json", "id", "w")     *)
(* that stands for a fixed run of characters of [A-Za-z0-9_]: every        *)
(* regular expression of the code treats such a run uniformly.  A path is  *)
(* the sequence of its segments below "/", each segment a string.          *)
(***************************************************************************)
EXTENDS Integers, Sequences, FiniteSets, TLC

VARIABLES
    fs,             \* the file system: path -> [kind, data]
    partedUploads,  \* the part tracker: originalFilename -> PartGroup
    now,            \* Date.now(), in model time units
    uploads,        \* the transfer engine's sessions: id -> [status, metadata]
    content,        \* the bytes each session's client uploads
    menu,           \* the Upload-Metadata a client may declare
    timers,         \* pending setTimeout callbacks of handleSingleFileUpload
    triggered,      \* history: concatenations triggered per tracked group
    queueItem,      \* the browser's UploadQueue item being processed
    uploadQueue,    \* the browser's UploadQueue with all of its items
    log             \* history: what the last step did

vars == <<fs, partedUploads, now, uploads, content, menu, timers, triggered,
          queueItem, uploadQueue, log>>

-----------------------------------------------------------------------------
(* Bounds of the model *)

MaxSessions == 3
MaxTime == 6
MaxPathLen == 5
MaxPartLen == 3

(* Program constants, in model units: one time unit is 15 minutes, one     *)
(* data unit is 32 MB.                                                     *)
CLEANUP_INTERVAL == 2
PART_TIMEOUT == 4
bufferSize == 2

-----------------------------------------------------------------------------
(* Strings *)

\* a metadata key the client did not send (undefined)
Absent == <<"undefined">>

Truthy(v) == v # Absent /\ v # <<>>

StrTrue == <<"true">>
StrFalse == <<"false">>
StrPrevent == <<"prevent">>
StrNumber == <<"number">>

SafeChars ==
    {"a", "b", "d", "p", "w", "0", "1", "2", "3", "4", "5", "6", "7", "8", "9",
     ".", "_", "-",
     "UPLOAD_STAGING_DIR", "tmp", "json", "id"}

DigitChars == <<"0", "1", "2", "3", "4", "5", "6", "7", "8", "9">>

IsDigit(c) == \E k \in 1..10 : DigitChars[k] = c

DigitValue(c) == (CHOOSE k \in 1..10 : DigitChars[k] = c) - 1

RECURSIVE NumberToString(_)
\* Number.prototype.toString of a non-negative integer (template literals)
NumberToString(n) ==
    IF n < 10 THEN <<DigitChars[n + 1]>>
    ELSE NumberToString(n \div 10) \o <<DigitChars[(n % 10) + 1]>>

EndsWith(s, t) ==
    /\ Len(t) <= Len(s)
    /\ SubSeq(s, Len(s) - Len(t) + 1, Len(s)) = t

IsPrefix(p, q) == Len(p) <= Len(q) /\ SubSeq(q, 1, Len(p)) = p

\* name.replace(/[^a-zA-Z0-9._-]/g, ""): the characters are dropped
sanitizeDropping(name) == SelectSeq(name, LAMBDA c : c \in SafeChars)

\* name.replace(/[^a-zA-Z0-9._-]/g, "_")
sanitize(name) ==
    [i \in 1..Len(name) |-> IF name[i] \in SafeChars THEN name[i] ELSE "_"]

RECURSIVE ReplaceDotDot(_)
\* s.replace(/\.\./g, ""): every non-overlapping "..", scanning left to right
ReplaceDotDot(s) ==
    IF Len(s) = 0 THEN <<>>
    ELSE IF Len(s) >= 2 /\ s[1] = "." /\ s[2] = "."
         THEN ReplaceDotDot(SubSeq(s, 3, Len(s)))
         ELSE <<s[1]>> \o ReplaceDotDot(Tail(s))

RECURSIVE StripLeadingSlashes(_)
\* s.replace(/^\/+/, "")
StripLeadingSlashes(s) ==
    IF Len(s) > 0 /\ s[1] = "/" THEN StripLeadingSlashes(Tail(s)) ELSE s

\* meta.path.replace(/\.\./g, "").replace(/^\/+/, "")
\* replace(/\.\./, ""), without the g flag: the first occurrence only
ReplaceFirstDotDot(s) ==
    IF \E k \in 1..(Len(s) - 1) : s[k] = "." /\ s[k + 1] = "."
    THEN LET k == CHOOSE j \in 1..(Len(s) - 1) :
                     /\ s[j] = "." /\ s[j + 1] = "."
                     /\ \A h \in 1..(j - 1) : ~(s[h] = "." /\ s[h + 1] = ".")
         IN SubSeq(s, 1, k - 1) \o SubSeq(s, k + 2, Len(s))
    ELSE s

relativePathFirstOnly(p) == StripLeadingSlashes(ReplaceFirstDotDot(p))

\* metadata.path.replace(/\.\./g, "").replace(/^\/+/, "")
relativePath(p) == StripLeadingSlashes(ReplaceDotDot(p))

RECURSIVE SplitFrom(_, _)
\* the segments of s between "/" characters, cur being the segment so far
SplitFrom(s, cur) ==
    IF Len(s) = 0 THEN <<cur>>
    ELSE IF s[1] = "/" THEN <<cur>> \o SplitFrom(Tail(s), <<>>)
         ELSE SplitFrom(Tail(s), Append(cur, s[1]))

Split(s) == SplitFrom(s, <<>>)

RECURSIVE NormalizeOnto(_, _)
\* path.normalize of an absolute path: "" and "." segments are dropped and
\* ".." removes the segment before it (at "/" it is dropped)
NormalizeOnto(acc, segs) ==
    IF Len(segs) = 0 THEN acc
    ELSE LET s == Head(segs) IN
         IF s = <<>> \/ s = <<".">> THEN NormalizeOnto(acc, Tail(segs))
         ELSE IF s = <<".", ".">>
              THEN NormalizeOnto(IF Len(acc) = 0 THEN acc
                                 ELSE SubSeq(acc, 1, Len(acc) - 1), Tail(segs))
              ELSE NormalizeOnto(Append(acc, s), Tail(segs))

\* path.join(dir, s) for an absolute, normalized dir
PathJoin(dir, s) == NormalizeOnto(dir, Split(s))

\* `${p}.tmp` and `${p}.json`: the suffix is appended to the path's text
PathSuffix(p, suffix) ==
    IF Len(p) = 0 THEN <<suffix>>
    ELSE [p EXCEPT ![Len(p)] = p[Len(p)] \o suffix]

\* path.extname of a name without "/"
extname(name) ==
    LET dots == {i \in 1..Len(name) : name[i] = "."} IN
    IF dots = {} THEN <<>>
    ELSE LET startDot == CHOOSE i \in dots : \A j \in dots : j <= i IN
         IF startDot = 1 THEN <<>>
         ELSE IF name = <<".", ".">> THEN <<>>
              ELSE SubSeq(name, startDot, Len(name))

\* path.basename(name, ext) of a name without "/"
basename(name, ext) ==
    IF Len(ext) > 0 /\ EndsWith(name, ext) /\ ext # name
    THEN SubSeq(name, 1, Len(name) - Len(ext))
    ELSE name

uploadsDir == << <<"w">> >>

initUploadDir == PathJoin(uploadsDir, <<"UPLOAD_STAGING_DIR">>)

-----------------------------------------------------------------------------
(* The file system.  fs maps every existing path to its entry; the parent  *)
(* of an existing path is an existing directory.  An operation returns     *)
(* [ok, fs]: ok is FALSE when the call throws, and fs is then unchanged.   *)

Dir == [kind |-> "dir", data |-> <<>>]

File(bytes) == [kind |-> "file", data |-> bytes]

Parent(p) == SubSeq(p, 1, Len(p) - 1)

Prefixes(p) == {SubSeq(p, 1, k) : k \in 0..Len(p)}

IsDir(f, p) == p \in DOMAIN f /\ f[p].kind = "dir"

IsFile(f, p) == p \in DOMAIN f /\ f[p].kind = "file"

\* fs.existsSync(p)
existsSync(f, p) == p \in DOMAIN f

Restrict(f, keep) == [q \in keep |-> f[q]]

\* fs.mkdirSync(p, { recursive: true })
mkdirSync(f, p) ==
    IF \A q \in Prefixes(p) : q \in DOMAIN f => f[q].kind = "dir"
    THEN [ok |-> TRUE,
          fs |-> [q \in DOMAIN f \cup Prefixes(p) |->
                    IF q \in DOMAIN f THEN f[q] ELSE Dir]]
    ELSE [ok |-> FALSE, fs |-> f]

\* fs.unlinkSync(p)
unlinkSync(f, p) ==
    IF IsFile(f, p)
    THEN [ok |-> TRUE, fs |-> Restrict(f, DOMAIN f \ {p})]
    ELSE [ok |-> FALSE, fs |-> f]

\* fs.openSync(p, 'w') followed by the writes and fs.closeSync
writeFileSync(f, p, bytes) ==
    IF Len(p) > 0 /\ IsDir(f, Parent(p)) /\ ~IsDir(f, p)
    THEN [ok |-> TRUE,
          fs |-> [q \in DOMAIN f \cup {p} |-> IF q = p THEN File(bytes) ELSE f[q]]]
    ELSE [ok |-> FALSE, fs |-> f]

Subtree(f, p) == {q \in DOMAIN f : IsPrefix(p, q)}

\* fs.renameSync(src, dst): rename(2)
renameSync(f, src, dst) ==
    IF /\ Len(src) > 0 /\ Len(dst) > 0
       /\ src \in DOMAIN f
       /\ IsDir(f, Parent(dst))
       /\ (src # dst => ~IsPrefix(src, dst))
       /\ dst \in DOMAIN f =>
            /\ f[dst].kind = f[src].kind
            /\ (src # dst /\ f[dst].kind = "dir") => Subtree(f, dst) = {dst}
    THEN IF src = dst THEN [ok |-> TRUE, fs |-> f]
         ELSE LET moved == Subtree(f, src)
                  kept  == DOMAIN f \ (moved \cup {dst})
                  Dest(q) == dst \o SubSeq(q, Len(src) + 1, Len(q))
              IN [ok |-> TRUE,
                  fs |-> [q \in kept \cup {Dest(m) : m \in moved} |->
                            IF q \in kept THEN f[q]
                            ELSE f[CHOOSE m \in moved : Dest(m) = q]]]
    ELSE [ok |-> FALSE, fs |-> f]

\* fs.promises.rm(p, { recursive: true, force: true })
rm(f, p) == Restrict(f, DOMAIN f \ Subtree(f, p))

WellFormed(f) ==
    /\ IsDir(f, <<>>)
    /\ \A p \in DOMAIN f : Len(p) > 0 => IsDir(f, Parent(p))

\* the staged content and the JSON sidecar of a session of the transfer engine
StagedPath(id) == PathJoin(initUploadDir, id)

SidecarPath(id) == PathJoin(initUploadDir, id \o <<".", "json">>)


-----------------------------------------------------------------------------
(* Upload-Metadata.  A session's metadata maps every key of MetaKeys to a  *)
(* string or to Absent.  The header is the list of its comma-separated     *)
(* items, each with its key and its base64 value ([b64 |-> the string the  *)
(* text decodes to], or NoValue when the item has no second field).        *)

KeyOrder ==
    <<"filename", "path", "useOriginalFilename", "onDuplicateFiles",
      "isPartedUpload", "originalFilename", "partNumber", "totalParts">>

MetaKeys == {KeyOrder[k] : k \in 1..Len(KeyOrder)}

NoMetadata == [k \in MetaKeys |-> Absent]

NoValue == [none |-> TRUE]

\* what the client sends: btoa of every value it declares
EncodeMetadata(meta) ==
    LET Item(k) == [key |-> k, value |-> [b64 |-> meta[k]]]
        present == SelectSeq(KeyOrder, LAMBDA k : meta[k] # Absent)
    IN [n \in 1..Len(present) |-> Item(present[n])]

\* Buffer.from(value, "base64").toString("utf8")
DecodeBase64(value) == value.b64

\* the Upload-Metadata parser of the duplicate check
parseMetadataHeader(header) ==
    [k \in MetaKeys |->
        LET set == {n \in 1..Len(header) :
                       /\ header[n].key = k
                       /\ header[n].value # NoValue
                       /\ header[n].value.b64 # <<>>}
        IN IF set = {} THEN Absent
           ELSE DecodeBase64(header[CHOOSE n \in set : \A o \in set : o <= n].value)]

\* JavaScript numbers: an integer or NaN
Number(n) == [num |-> n]

NaN == [nan |-> TRUE]

RECURSIVE DigitsValue(_, _)
\* the value of the leading decimal digits of s, acc being the value so far
DigitsValue(s, acc) ==
    IF Len(s) > 0 /\ IsDigit(s[1])
    THEN DigitsValue(Tail(s), 10 * acc + DigitValue(s[1]))
    ELSE acc

RECURSIVE parseInt(_)
\* parseInt(s): leading blanks, an optional sign, then decimal digits
parseInt(s) ==
    IF s = Absent \/ Len(s) = 0 THEN NaN
    ELSE IF s[1] = " " THEN parseInt(Tail(s))
    ELSE LET neg == s[1] = "-"
             rest == IF s[1] \in {"-", "+"} THEN Tail(s) ELSE s
         IN IF Len(rest) = 0 \/ ~IsDigit(rest[1]) THEN NaN
            ELSE Number(IF neg THEN -DigitsValue(rest, 0) ELSE DigitsValue(rest, 0))

-----------------------------------------------------------------------------
(* Pre-upload duplicate guard *)

\* the target directory of the duplicate check
duplicateCheckTargetDir(metadata) ==
    IF Truthy(metadata.path)
    THEN PathJoin(uploadsDir, relativePath(metadata.path))
    ELSE uploadsDir

\* a check that also applies under the "number" policy
duplicateCheckAppliesToNumber(metadata) ==
    /\ metadata.useOriginalFilename = StrTrue
    /\ Truthy(metadata.filename)
    /\ metadata.onDuplicateFiles \in {StrPrevent, StrNumber}

\* the condition under which duplicates are checked for
duplicateCheckApplies(metadata) ==
    /\ metadata.useOriginalFilename = StrTrue
    /\ Truthy(metadata.filename)
    /\ metadata.onDuplicateFiles = StrPrevent

\* a catch block that refuses
duplicateCheckRefusesOnError == "409"

\* what the catch block of the duplicate check answers
duplicateCheckOnError == "next"

NoDir == <<<<"no target directory">>>>

\* the middleware on POST /files: [response, fs, threw, targetDir]
duplicateCheck(f, header) ==
    IF Len(header) = 0
    THEN [response |-> "next", fs |-> f, threw |-> FALSE, targetDir |-> NoDir]
    ELSE
    LET metadata == parseMetadataHeader(header) IN
    IF duplicateCheckApplies(metadata)
    THEN LET originalFilename == sanitize(metadata.filename)
             targetDir == duplicateCheckTargetDir(metadata)
             made == IF Truthy(metadata.path) /\ ~existsSync(f, targetDir)
                     THEN mkdirSync(f, targetDir)
                     ELSE [ok |-> TRUE, fs |-> f]
             filePath == PathJoin(targetDir, originalFilename)
         IN IF ~made.ok
            THEN [response |-> duplicateCheckOnError, fs |-> made.fs, threw |-> TRUE,
                  targetDir |-> targetDir]
            ELSE IF existsSync(made.fs, filePath)
                 THEN [response |-> "409", fs |-> made.fs, threw |-> FALSE,
                       targetDir |-> targetDir]
                 ELSE [response |-> "next", fs |-> made.fs, threw |-> FALSE,
                       targetDir |-> targetDir]
    ELSE [response |-> "next", fs |-> f, threw |-> FALSE, targetDir |-> NoDir]

-----------------------------------------------------------------------------
(* Filename collision resolution *)

\* a loop that probes a single numbered candidate
numberLoopOnce(f, targetDir, base, ext, candidate, i) ==
    IF existsSync(f, PathJoin(targetDir, candidate))
    THEN base \o <<"(">> \o NumberToString(i) \o <<")">> \o ext
    ELSE candidate

RECURSIVE numberLoop(_, _, _, _, _, _)
\* while (fs.existsSync(path.join(targetDir, candidate))) { ... i++ }
numberLoop(f, targetDir, base, ext, candidate, i) ==
    IF existsSync(f, PathJoin(targetDir, candidate))
    THEN numberLoop(f, targetDir, base, ext,
                    base \o <<"(">> \o NumberToString(i) \o <<")">> \o ext, i + 1)
    ELSE candidate

\* a publisher that keeps the name whatever the policy
singleFinalFilenameKept(f, targetDir, originalFilename, meta) == originalFilename

\* a publisher that numbers under every policy
singleFinalFilenameNumbered(f, targetDir, originalFilename, meta) ==
    IF existsSync(f, PathJoin(targetDir, originalFilename))
    THEN LET ext == extname(originalFilename)
             base == basename(originalFilename, ext)
         IN numberLoop(f, targetDir, base, ext, base \o ext, 1)
    ELSE originalFilename

\* the "number" option of handleSingleFileUpload
singleFinalFilename(f, targetDir, originalFilename, meta) ==
    IF /\ existsSync(f, PathJoin(targetDir, originalFilename))
       /\ meta.onDuplicateFiles = StrNumber
    THEN LET ext == extname(originalFilename)
             base == basename(originalFilename, ext)
         IN numberLoop(f, targetDir, base, ext, base \o ext, 1)
    ELSE originalFilename

\* the "number" option of concatenateAndCleanup
concatFinalFilename(f, targetDir, finalFilename, metadata) ==
    IF /\ existsSync(f, PathJoin(targetDir, finalFilename))
       /\ metadata.onDuplicateFiles = StrNumber
    THEN LET ext == extname(finalFilename)
             base == basename(finalFilename, ext)
         IN numberLoop(f, targetDir, base, ext, base \o ext, 1)
    ELSE finalFilename


-----------------------------------------------------------------------------
(* Single-file publisher *)

NoTimer == [none |-> TRUE]

\* the target directory of handleSingleFileUpload
singleTargetDir(meta) ==
    IF Truthy(meta.path)
    THEN PathJoin(uploadsDir, relativePath(meta.path))
    ELSE uploadsDir

\* handleSingleFileUpload up to its setTimeout: [threw, fs, timer, targetDir]
handleSingleFileUpload(f, id, meta) ==
    LET originalFilename == sanitize(meta.filename)
        targetDir == singleTargetDir(meta)
        made == IF Truthy(meta.path) /\ ~existsSync(f, targetDir)
                THEN mkdirSync(f, targetDir)
                ELSE [ok |-> TRUE, fs |-> f]
        finalFilename == singleFinalFilename(made.fs, targetDir, originalFilename, meta)
    IN IF ~made.ok
       THEN [threw |-> TRUE, fs |-> f, timer |-> NoTimer, targetDir |-> targetDir]
       ELSE [threw |-> FALSE, fs |-> made.fs, targetDir |-> targetDir,
             timer |-> [id |-> id,
                        uuidFilePath |-> StagedPath(id),
                        jsonFilePath |-> SidecarPath(id),
                        newFilePath |-> PathJoin(targetDir, finalFilename)]]

\* a callback that leaves the JSON file
publishStagedKeepsJson(f, t) ==
    IF existsSync(f, t.uuidFilePath)
    THEN LET renamed == renameSync(f, t.uuidFilePath, t.newFilePath)
         IN IF ~renamed.ok THEN [fs |-> f, outcome |-> "error"]
            ELSE [fs |-> renamed.fs, outcome |-> "published"]
    ELSE [fs |-> f, outcome |-> "not found"]

\* a callback that opens the final path when the staged file is missing
publishStagedOpens(f, t) ==
    IF existsSync(f, t.uuidFilePath)
    THEN publishStagedKeepsJson(f, t)
    ELSE [fs |-> writeFileSync(f, t.newFilePath, <<>>).fs, outcome |-> "not found"]

\* the setTimeout callback of handleSingleFileUpload: [fs, outcome]
publishStaged(f, t) ==
    IF existsSync(f, t.uuidFilePath)
    THEN LET renamed == renameSync(f, t.uuidFilePath, t.newFilePath)
             unlinked == IF existsSync(renamed.fs, t.jsonFilePath)
                         THEN unlinkSync(renamed.fs, t.jsonFilePath)
                         ELSE [ok |-> TRUE, fs |-> renamed.fs]
         IN IF ~renamed.ok THEN [fs |-> f, outcome |-> "error"]
            ELSE [fs |-> unlinked.fs,
                  outcome |-> IF unlinked.ok THEN "published" ELSE "error"]
    ELSE [fs |-> f, outcome |-> "not found"]

-----------------------------------------------------------------------------
(* Part concatenator *)

Min(a, b) == IF a <= b THEN a ELSE b

\* a read that returns full buffers only
readSyncWholeBuffer(part, length, position) ==
    IF position + length <= Len(part)
    THEN SubSeq(part, position + 1, position + length)
    ELSE <<>>

\* fs.readSync(partFd, buffer, 0, length, position): the bytes read
readSync(part, length, position) ==
    SubSeq(part, position + 1, Min(Len(part), position + length))

RECURSIVE copyLoop(_, _, _)
\* while (position < partStats.size) { read; write; position += bytesRead }
copyLoop(part, position, written) ==
    IF position < Len(part)
    THEN LET buffer == readSync(part, bufferSize, position)
             bytesRead == Len(buffer)
         IN IF bytesRead = 0 THEN written
            ELSE copyLoop(part, position + bytesRead,
                          written \o SubSeq(buffer, 1, bytesRead))
    ELSE written

RECURSIVE concatLoopSkipMissing(_, _, _, _, _)
\* a loop that skips a part whose file is missing
concatLoopSkipMissing(f, uploadIds, partNumber, totalParts, written) ==
    IF partNumber > totalParts THEN [ok |-> TRUE, written |-> written]
    ELSE IF Number(partNumber) \notin DOMAIN uploadIds
         THEN [ok |-> FALSE, written |-> written]
         ELSE LET partPath == StagedPath(uploadIds[Number(partNumber)]) IN
              concatLoopSkipMissing(f, uploadIds, partNumber + 1, totalParts,
                  IF IsFile(f, partPath) THEN written \o f[partPath].data
                  ELSE written)

RECURSIVE concatLoop(_, _, _, _, _)
\* for (partNumber = 1; partNumber <= totalParts; partNumber++): [ok, written]
concatLoop(f, uploadIds, partNumber, totalParts, written) ==
    IF partNumber > totalParts THEN [ok |-> TRUE, written |-> written]
    ELSE IF Number(partNumber) \notin DOMAIN uploadIds
         THEN [ok |-> FALSE, written |-> written]
         ELSE LET partPath == StagedPath(uploadIds[Number(partNumber)]) IN
              IF ~IsFile(f, partPath)
              THEN [ok |-> FALSE, written |-> written]
              ELSE concatLoop(f, uploadIds, partNumber + 1, totalParts,
                              copyLoop(f[partPath].data, 0, written))

unlinkIfExists(f, p) ==
    IF existsSync(f, p) THEN unlinkSync(f, p) ELSE [ok |-> TRUE, fs |-> f]

RECURSIVE cleanupLoopPartsOnly(_, _, _, _)
\* a loop that deletes the part files and leaves their JSON files
cleanupLoopPartsOnly(f, uploadIds, partNumber, totalParts) ==
    IF partNumber > totalParts THEN [ok |-> TRUE, fs |-> f]
    ELSE LET part == unlinkIfExists(f, StagedPath(uploadIds[Number(partNumber)]))
         IN IF ~part.ok THEN [ok |-> FALSE, fs |-> part.fs]
            ELSE cleanupLoopPartsOnly(part.fs, uploadIds, partNumber + 1, totalParts)

RECURSIVE cleanupLoop(_, _, _, _)
\* the loop that deletes every part file and its JSON file: [ok, fs]
cleanupLoop(f, uploadIds, partNumber, totalParts) ==
    IF partNumber > totalParts THEN [ok |-> TRUE, fs |-> f]
    ELSE LET uploadId == uploadIds[Number(partNumber)]
             part == unlinkIfExists(f, StagedPath(uploadId))
             json == unlinkIfExists(part.fs, SidecarPath(uploadId))
         IN IF ~part.ok \/ ~json.ok THEN [ok |-> FALSE, fs |-> json.fs]
            ELSE cleanupLoop(json.fs, uploadIds, partNumber + 1, totalParts)

\* the catch block of concatenateAndCleanup: the file system it leaves
concatCatch(f, finalFilePath) ==
    LET final == unlinkIfExists(f, finalFilePath)
        temp == unlinkIfExists(final.fs, PathSuffix(finalFilePath, <<".", "tmp">>))
    IN IF ~final.ok THEN f ELSE temp.fs

\* concatenateAndCleanup: [threw, fs, finalFilePath, tempFilePath]
concatenateAndCleanup(f, originalFilename, totalParts, uploadInfo) ==
    LET finalFilename == concatFinalFilename(f, uploadInfo.targetDir,
                             sanitize(originalFilename), uploadInfo.metadata)
        finalFilePath == PathJoin(uploadInfo.targetDir, finalFilename)
        tempFilePath == PathSuffix(finalFilePath, <<".", "tmp">>)
        opened == writeFileSync(f, tempFilePath, <<>>)
        copied == concatLoop(opened.fs, uploadInfo.uploadIds, 1, totalParts, <<>>)
        written == writeFileSync(opened.fs, tempFilePath, copied.written)
        renamed == renameSync(written.fs, tempFilePath, finalFilePath)
        cleaned == cleanupLoop(renamed.fs, uploadInfo.uploadIds, 1, totalParts)
        Result(threw, g) ==
            [threw |-> threw, fs |-> g,
             finalFilePath |-> finalFilePath, tempFilePath |-> tempFilePath]
    IN IF originalFilename = Absent THEN Result(TRUE, f)
       ELSE IF ~opened.ok THEN Result(TRUE, concatCatch(f, finalFilePath))
       ELSE IF ~copied.ok \/ ~renamed.ok
            THEN Result(TRUE, concatCatch(written.fs, finalFilePath))
       ELSE IF ~cleaned.ok THEN Result(TRUE, concatCatch(cleaned.fs, finalFilePath))
       ELSE Result(FALSE, cleaned.fs)

-----------------------------------------------------------------------------
(* Part tracker *)

NoConcat == [none |-> TRUE]

\* the target directory of handlePartedUpload
partedTargetDir(meta) ==
    IF Truthy(meta.path)
    THEN PathJoin(uploadsDir, relativePath(meta.path))
    ELSE uploadsDir

\* uploadInfo.parts.has(totalParts): the highest-numbered part has arrived
lastPartReceived(uploadInfo, totalParts) ==
    totalParts # NaN /\ totalParts \in uploadInfo.parts

\* uploadInfo.parts.size === totalParts
allPartsReceived(uploadInfo, totalParts) ==
    totalParts # NaN /\ Cardinality(uploadInfo.parts) = totalParts.num

\* whether the group is still tracked after concatenateAndCleanup returned
trackedAfterConcat(threw) == threw

\* a tracker that takes the directory, metadata and timestamp of every part
trackedOrLatest(tracker, key, new) ==
    IF key \in DOMAIN tracker
    THEN [new EXCEPT !.parts = tracker[key].parts,
                     !.uploadIds = tracker[key].uploadIds]
    ELSE new

\* if (!partedUploads.has(key)) partedUploads.set(key, new); partedUploads.get(key)
trackedOrNew(tracker, key, new) ==
    IF key \in DOMAIN tracker THEN tracker[key] ELSE new

\* a set that keeps the value a key already has
mapSetOnce(map, key, value) ==
    [n \in DOMAIN map \cup {key} |-> IF n \in DOMAIN map THEN map[n] ELSE value]

\* uploadInfo.uploadIds.set(partNumber, upload.id)
mapSet(map, key, value) ==
    [n \in DOMAIN map \cup {key} |-> IF n = key THEN value ELSE map[n]]

\* handlePartedUpload: [threw, fs, partedUploads, concat, targetDir, uploadInfo]
handlePartedUpload(f, tracker, t, id, meta) ==
    LET originalFilename == meta.originalFilename
        partNumber == parseInt(meta.partNumber)
        totalParts == parseInt(meta.totalParts)
        targetDir == partedTargetDir(meta)
        made == IF Truthy(meta.path) /\ ~existsSync(f, targetDir)
                THEN mkdirSync(f, targetDir)
                ELSE [ok |-> TRUE, fs |-> f]
        old == trackedOrNew(tracker, originalFilename,
                            [parts |-> {}, metadata |-> meta, targetDir |-> targetDir,
                             uploadIds |-> <<>>, timestamp |-> t])
        uploadInfo ==
            [old EXCEPT
               !.parts = @ \cup {partNumber},
               !.uploadIds = mapSet(@, partNumber, id)]
        registered == [k \in DOMAIN tracker \cup {originalFilename} |->
                         IF k = originalFilename THEN uploadInfo ELSE tracker[k]]
        Concatenated(concat) ==
            [threw |-> concat.threw, fs |-> concat.fs, concat |-> concat,
             targetDir |-> targetDir, uploadInfo |-> uploadInfo,
             partedUploads |->
                IF trackedAfterConcat(concat.threw) THEN registered
                ELSE Restrict(registered, DOMAIN registered \ {originalFilename})]
    IN IF ~made.ok
       THEN [threw |-> TRUE, fs |-> f, partedUploads |-> tracker,
             concat |-> NoConcat, targetDir |-> targetDir, uploadInfo |-> old]
       ELSE IF allPartsReceived(uploadInfo, totalParts)
            THEN Concatenated(concatenateAndCleanup(made.fs, originalFilename,
                                                    totalParts.num, uploadInfo))
            ELSE [threw |-> FALSE, fs |-> made.fs, partedUploads |-> registered,
                  concat |-> NoConcat, targetDir |-> targetDir,
                  uploadInfo |-> uploadInfo]

-----------------------------------------------------------------------------
(* Orphan reaper *)

\* now - uploadInfo.timestamp >= PART_TIMEOUT
isOrphanedFrom(t, uploadInfo) == t - uploadInfo.timestamp >= PART_TIMEOUT

\* now - uploadInfo.timestamp > PART_TIMEOUT + CLEANUP_INTERVAL
isOrphanedLate(t, uploadInfo) ==
    t - uploadInfo.timestamp > PART_TIMEOUT + CLEANUP_INTERVAL

\* now - uploadInfo.timestamp > PART_TIMEOUT
isOrphaned(t, uploadInfo) == t - uploadInfo.timestamp > PART_TIMEOUT

RECURSIVE unlinkAll(_, _)
unlinkAll(f, paths) ==
    IF paths = {} THEN f
    ELSE LET p == CHOOSE q \in paths : TRUE
         IN unlinkAll(unlinkIfExists(f, p).fs, paths \ {p})

\* cleanupOrphanedParts: [fs, partedUploads]
cleanupOrphanedParts(f, tracker, t) ==
    LET orphanedFiles == {k \in DOMAIN tracker : isOrphaned(t, tracker[k])}
        ids == UNION {{tracker[k].uploadIds[n] : n \in DOMAIN tracker[k].uploadIds} :
                      k \in orphanedFiles}
    IN [fs |-> unlinkAll(f, {StagedPath(id) : id \in ids}
                            \cup {SidecarPath(id) : id \in ids}),
        partedUploads |-> Restrict(tracker, DOMAIN tracker \ orphanedFiles)]


-----------------------------------------------------------------------------
(* The session-completed handler *)

\* meta.filename alone
hasFilename(meta) == Truthy(meta.filename)

\* meta.useOriginalFilename === "true" && meta.filename
usesOriginalFilename(meta) ==
    meta.useOriginalFilename = StrTrue /\ Truthy(meta.filename)

\* tusServer.on(EVENTS.POST_FINISH, ...): what the completion of session id
\* with metadata meta does: [kind, threw, fs, partedUploads, timer, targetDir,
\* concat, uploadInfo]
postFinish(f, tracker, t, id, meta) ==
    IF usesOriginalFilename(meta)
    THEN IF meta.isPartedUpload = StrTrue
         THEN LET Parted(r) ==
                      [kind |-> "parted", threw |-> r.threw, fs |-> r.fs,
                       partedUploads |-> r.partedUploads, timer |-> NoTimer,
                       targetDir |-> r.targetDir, concat |-> r.concat,
                       uploadInfo |-> r.uploadInfo]
              IN Parted(handlePartedUpload(f, tracker, t, id, meta))
         ELSE LET Single(r) ==
                      [kind |-> "single", threw |-> r.threw, fs |-> r.fs,
                       partedUploads |-> tracker, timer |-> r.timer,
                       targetDir |-> r.targetDir, concat |-> NoConcat,
                       uploadInfo |-> NoConcat]
              IN Single(handleSingleFileUpload(f, id, meta))
    ELSE [kind |-> "ignored", threw |-> FALSE, fs |-> f, partedUploads |-> tracker,
          timer |-> NoTimer, targetDir |-> <<>>, concat |-> NoConcat,
          uploadInfo |-> NoConcat]

-----------------------------------------------------------------------------
(* The directory endpoints *)

RECURSIVE Includes(_, _)
\* s.includes(sub)
Includes(s, sub) ==
    IF Len(s) < Len(sub) THEN FALSE
    ELSE IsPrefix(sub, s) \/ Includes(Tail(s), sub)

RECURSIVE RenderFrom(_)
RenderFrom(p) ==
    IF Len(p) = 0 THEN <<>> ELSE <<"/">> \o Head(p) \o RenderFrom(Tail(p))

\* the text of an absolute path
RenderPath(p) == IF Len(p) = 0 THEN <<"/">> ELSE RenderFrom(p)

\* path.resolve(dir, s)
pathResolve(dir, s) ==
    IF Len(s) > 0 /\ s[1] = "/" THEN NormalizeOnto(<<>>, Split(s))
    ELSE NormalizeOnto(dir, Split(s))

\* app.delete("/api/files"): [status, fs]
deleteFiles(f, filePath) ==
    LET fullPath == pathResolve(uploadsDir, filePath) IN
    IF ~Truthy(filePath) THEN [status |-> 400, fs |-> f]
    ELSE IF Includes(filePath, <<".", ".">>) THEN [status |-> 403, fs |-> f]
    ELSE IF ~IsPrefix(RenderPath(uploadsDir), RenderPath(fullPath))
         THEN [status |-> 403, fs |-> f]
    ELSE IF ~existsSync(f, fullPath) THEN [status |-> 404, fs |-> f]
    ELSE [status |-> 200, fs |-> rm(f, fullPath)]

\* fs.promises.mkdir(p)
mkdir(f, p) ==
    IF Len(p) > 0 /\ IsDir(f, Parent(p)) /\ p \notin DOMAIN f
    THEN [ok |-> TRUE, fs |-> [q \in DOMAIN f \cup {p} |-> IF q = p THEN Dir ELSE f[q]]]
    ELSE [ok |-> FALSE, fs |-> f]

\* fs.promises.readdir(p): the entries of the directory p
readdir(f, p) ==
    IF IsDir(f, p)
    THEN [ok |-> TRUE, items |-> {q \in DOMAIN f : Len(q) > 0 /\ Parent(q) = p}]
    ELSE [ok |-> FALSE, items |-> {}]

\* app.get("/api/files"): [status, fullPath, items]
listFiles(f, path) ==
    LET dirPath == IF Truthy(path) THEN path ELSE <<"/">>
        fullPath == pathResolve(uploadsDir, IF dirPath = <<"/">> THEN <<>> ELSE dirPath)
        Listed(read) == [status |-> IF read.ok THEN 200 ELSE 500,
                         fullPath |-> fullPath, items |-> read.items]
    IN IF Includes(dirPath, <<".", ".">>)
       THEN [status |-> 403, fullPath |-> fullPath, items |-> {}]
       ELSE IF ~IsPrefix(RenderPath(uploadsDir), RenderPath(fullPath))
            THEN [status |-> 403, fullPath |-> fullPath, items |-> {}]
       ELSE IF ~existsSync(f, fullPath)
            THEN [status |-> 404, fullPath |-> fullPath, items |-> {}]
       ELSE Listed(readdir(f, fullPath))

\* app.patch("/api/files"): [status, fs]
moveFiles(f, sourcePath, destinationPath) ==
    LET fullSourcePath == pathResolve(uploadsDir, sourcePath)
        fullDestinationPath == pathResolve(uploadsDir, destinationPath)
        destinationDir == Parent(fullDestinationPath)
        made == IF ~existsSync(f, destinationDir)
                THEN mkdirSync(f, destinationDir)
                ELSE [ok |-> TRUE, fs |-> f]
        Moved(renamed) == [status |-> IF renamed.ok THEN 200 ELSE 500,
                           fs |-> renamed.fs]
    IN IF ~Truthy(sourcePath) \/ ~Truthy(destinationPath)
       THEN [status |-> 400, fs |-> f]
       ELSE IF Includes(sourcePath, <<".", ".">>) \/ Includes(destinationPath, <<".", ".">>)
            THEN [status |-> 403, fs |-> f]
       ELSE IF \/ ~IsPrefix(RenderPath(uploadsDir), RenderPath(fullSourcePath))
               \/ ~IsPrefix(RenderPath(uploadsDir), RenderPath(fullDestinationPath))
            THEN [status |-> 403, fs |-> f]
       ELSE IF ~existsSync(f, fullSourcePath) THEN [status |-> 404, fs |-> f]
       ELSE IF ~made.ok THEN [status |-> 500, fs |-> f]
       ELSE Moved(renameSync(made.fs, fullSourcePath, fullDestinationPath))

\* /^[a-zA-Z0-9._\-\s]+$/.test(folderName)
validFolderName(folderName) ==
    Len(folderName) > 0 /\ \A k \in 1..Len(folderName) : folderName[k] \in SafeChars

\* app.post("/api/folders"): [status, fs]
createFolder(f, folderPath, folderName) ==
    LET parentDir == pathResolve(uploadsDir,
                                 IF folderPath = <<"/">> THEN <<>> ELSE folderPath)
        fullFolderPath == PathJoin(parentDir, folderName)
        Made(made) == [status |-> IF made.ok THEN 200 ELSE 500, fs |-> made.fs]
    IN IF ~Truthy(folderPath) \/ ~Truthy(folderName)
       THEN [status |-> 400, fs |-> f]
       ELSE IF ~validFolderName(folderName) THEN [status |-> 400, fs |-> f]
       ELSE IF Includes(folderPath, <<".", ".">>) \/ Includes(folderName, <<".", ".">>)
            THEN [status |-> 403, fs |-> f]
       ELSE IF ~IsPrefix(RenderPath(uploadsDir), RenderPath(fullFolderPath))
            THEN [status |-> 403, fs |-> f]
       ELSE IF ~existsSync(f, parentDir) THEN [status |-> 404, fs |-> f]
       ELSE IF existsSync(f, fullFolderPath) THEN [status |-> 409, fs |-> f]
       ELSE Made(mkdir(f, fullFolderPath))

-----------------------------------------------------------------------------
(* The system: sessions of the transfer engine, completion events, timers  *)

Sessions == 1..MaxSessions

\* the opaque identifier the transfer engine gives session i
UploadId(i) == <<"id", DigitChars[i + 1]>>

NoLog == [op |-> "init"]

\* the requests DELETE /api/files receives: the staged content of a session
DeleteInputs == {<<"UPLOAD_STAGING_DIR", "/">> \o UploadId(i) : i \in Sessions}

EmptyVolume ==
    [p \in {<<>>, uploadsDir, initUploadDir} |-> Dir]

\* the concatenations triggered so far for the group now tracked under key
Triggered(key) == IF key \in DOMAIN triggered THEN triggered[key] ELSE 0

\* whether an entry named sanitize(filename) exists in the directory the
\* path metadata names
NamedEntryExists(f, meta) ==
    LET dir == IF Truthy(meta.path)
               THEN PathJoin(uploadsDir, relativePath(meta.path))
               ELSE uploadsDir
    IN Truthy(meta.filename) /\ PathJoin(dir, sanitize(meta.filename)) \in DOMAIN f

\* whether the staged content of some part 1..totalParts of the group is absent
PartMissing(f, uploadInfo, totalParts) ==
    \E n \in 1..totalParts :
        \/ Number(n) \notin DOMAIN uploadInfo.uploadIds
        \/ ~IsFile(f, StagedPath(uploadInfo.uploadIds[Number(n)]))

\* a handler without its try and catch: what is thrown leaves it
escapesUncaught(threw) == threw

\* try { ... } catch (error) { console.error(...) } around the whole body of
\* the POST_FINISH handler and of the setTimeout callback: whether what was
\* thrown inside leaves the handler
escapes(threw) == FALSE

\* POST /files: the duplicate check, then the transfer engine creates session i
CreateUpload(i, meta) ==
    /\ uploads[i].status = "none"
    /\ \A j \in Sessions : j < i => uploads[j].status # "none"
    /\ LET check == duplicateCheck(fs, EncodeMetadata(meta))
           staged == writeFileSync(check.fs, StagedPath(UploadId(i)), <<>>)
           sidecar == writeFileSync(staged.fs, SidecarPath(UploadId(i)), <<>>)
           created == check.response = "next" /\ staged.ok /\ sidecar.ok
       IN /\ fs' = IF created THEN sidecar.fs ELSE check.fs
          /\ uploads' = IF created
                        THEN [uploads EXCEPT ![i] = [status |-> "open", metadata |-> meta]]
                        ELSE uploads
          /\ log' = [op |-> "create", id |-> i, metadata |-> meta,
                     response |-> check.response, threw |-> check.threw,
                     targetDir |-> check.targetDir, created |-> created,
                     entryExisted |-> NamedEntryExists(fs, meta)]
    /\ UNCHANGED <<partedUploads, now, content, menu, timers, triggered,
                   queueItem, uploadQueue>>

\* the last PATCH of session i: the engine stores the bytes and emits POST_FINISH
FinishUpload(i) ==
    /\ uploads[i].status = "open"
    /\ IsFile(fs, StagedPath(UploadId(i)))
    /\ LET meta == uploads[i].metadata
           stored == writeFileSync(fs, StagedPath(UploadId(i)), content[i])
           key == meta.originalFilename
           count == IF key \in DOMAIN partedUploads THEN Triggered(key) ELSE 0
           Handled(r) ==
              /\ fs' = r.fs
              /\ partedUploads' = r.partedUploads
              /\ timers' = IF r.timer = NoTimer THEN timers ELSE timers \cup {r.timer}
              /\ uploads' = [uploads EXCEPT ![i].status = "done"]
              /\ triggered' =
                   IF r.kind = "parted" /\ ~(r.threw /\ r.concat = NoConcat)
                   THEN [k \in DOMAIN triggered \cup {key} |->
                           IF k = key
                           THEN count + (IF r.concat = NoConcat THEN 0 ELSE 1)
                           ELSE triggered[k]]
                   ELSE triggered
              /\ log' = [op |-> "finish", id |-> i, metadata |-> meta, kind |-> r.kind,
                         threw |-> r.threw, escaped |-> escapes(r.threw),
                         targetDir |-> r.targetDir,
                         concat |-> IF r.concat = NoConcat THEN NoConcat
                                    ELSE [threw |-> r.concat.threw,
                                          finalFilePath |-> r.concat.finalFilePath,
                                          tempFilePath |-> r.concat.tempFilePath],
                         uploadInfo |-> r.uploadInfo, timer |-> r.timer,
                         missing |-> r.concat # NoConcat /\
                            PartMissing(stored.fs, r.uploadInfo,
                                        parseInt(meta.totalParts).num)]
       IN Handled(postFinish(stored.fs, partedUploads, now, UploadId(i), meta))
    /\ UNCHANGED <<now, content, menu, queueItem, uploadQueue>>

\* the setTimeout callback of handleSingleFileUpload fires
PublishTimer(t) ==
    /\ t \in timers
    /\ LET r == publishStaged(fs, t)
       IN /\ fs' = r.fs
          /\ log' = [op |-> "publish", timer |-> t, outcome |-> r.outcome,
                     escaped |-> escapes(r.outcome = "error")]
    /\ timers' = timers \ {t}
    /\ UNCHANGED <<partedUploads, now, uploads, content, menu, triggered,
                   queueItem, uploadQueue>>

\* setInterval(cleanupOrphanedParts, CLEANUP_INTERVAL) fires
Sweep ==
    /\ now > 0
    /\ now % CLEANUP_INTERVAL = 0
    /\ timers = {}
    /\ LET r == cleanupOrphanedParts(fs, partedUploads, now)
       IN /\ fs' = r.fs
          /\ partedUploads' = r.partedUploads
          /\ log' = [op |-> "sweep",
                     reaped |-> DOMAIN partedUploads \ DOMAIN r.partedUploads]
    /\ UNCHANGED <<now, uploads, content, menu, timers, triggered,
                   queueItem, uploadQueue>>

\* Time passes.  The 2 s publish timers have fired long before a time unit
\* ends.  The clock is read only to stamp and to age tracked groups: while
\* none is tracked it need not run further than to set the phase of the sweep
\* timer.
Tick ==
    /\ now < MaxTime
    /\ timers = {}
    /\ DOMAIN partedUploads # {} \/ now + 1 < CLEANUP_INTERVAL
    /\ now' = now + 1
    /\ log' = [op |-> "tick"]
    /\ UNCHANGED <<fs, partedUploads, uploads, content, menu, timers, triggered,
                   queueItem, uploadQueue>>

\* DELETE /api/files?path=filePath
DeleteFiles(filePath) ==
    /\ LET r == deleteFiles(fs, filePath)
       IN /\ r.status = 200
          /\ fs' = r.fs
          /\ log' = [op |-> "delete", path |-> filePath, status |-> r.status]
    /\ UNCHANGED <<partedUploads, now, uploads, content, menu, timers, triggered,
                   queueItem, uploadQueue>>


-----------------------------------------------------------------------------
(* The client's split (src/unnamed/part_002, UploadQueue).  Sizes are in the
   unit of the model's bytes, 32 MiB: bufferSize, 64 MiB, is 2. *)

\* tiers that take their upper limit in
getPartCountUpTo(fileSize) ==
    IF fileSize <= 1 THEN 1
    ELSE IF fileSize <= 16 THEN 2
    ELSE IF fileSize <= 32 THEN 4
    ELSE 6

\* getPartCount(fileSize): fileSize < 32 * MB, < 512 * MB, < 1024 * MB
getPartCount(fileSize) ==
    IF fileSize < 1 THEN 1
    ELSE IF fileSize < 16 THEN 2
    ELSE IF fileSize < 32 THEN 4
    ELSE 6

\* Math.ceil(a / b)
Ceil(a, b) == (a + b - 1) \div b

\* file.slice(start, end)
slice(bytes, start, end) ==
    IF start >= Min(end, Len(bytes)) THEN <<>>
    ELSE SubSeq(bytes, start + 1, Min(end, Len(bytes)))

\* a split into parts of Math.floor(file.size / partCount) bytes
splitFileIntoPartsFloor(file) ==
    LET partCount == getPartCount(Len(file.bytes))
        partSize == Len(file.bytes) \div partCount
    IN [i \in 1..partCount |->
          [blob |-> slice(file.bytes, (i - 1) * partSize,
                          Min((i - 1) * partSize + partSize, Len(file.bytes))),
           partNumber |-> i, totalParts |-> partCount, name |-> file.name]]

\* splitFileIntoParts(file): the parts, in the order of their part numbers
splitFileIntoParts(file) ==
    LET partCount == getPartCount(Len(file.bytes))
        partSize == Ceil(Len(file.bytes), partCount)
    IN IF partCount = 1
       THEN <<[blob |-> file.bytes, partNumber |-> 1, totalParts |-> 1,
               name |-> file.name]>>
       ELSE [i \in 1..partCount |->
               [blob |-> slice(file.bytes, (i - 1) * partSize,
                               Min((i - 1) * partSize + partSize, Len(file.bytes))),
                partNumber |-> i, totalParts |-> partCount, name |-> file.name]]

-----------------------------------------------------------------------------
(* The browser's upload queue (UploadQueue).  One queue item is followed:  *)
(* `parts' is the key set of queueItem.parts, `succeeded' and `failed' are *)
(* the part uploads whose onSuccess / onError has fired, `completions' and *)
(* `errors' count the calls of notifyUploadComplete / notifyUploadError,   *)
(* `queued' says whether the item is still in this.queue and `removals'    *)
(* counts the pending removeFromQueue timers.                              *)
NoQueueItem ==
    [status |-> "none", totalParts |-> 0, parts |-> {}, succeeded |-> {},
     failed |-> {}, completions |-> 0, errors |-> 0, queued |-> FALSE,
     removals |-> 0]

\* addFiles: the item enters the queue as pending.  The number of parts its
\* file will be split into (getPartCount of the file's size) is kept with it.
addFiles(size) ==
    [NoQueueItem EXCEPT !.status = "pending",
                        !.totalParts = getPartCount(size),
                        !.queued = TRUE]

\* handleUploadSuccess: mark completed, notify, schedule the removal.
handleUploadSuccess(item) ==
    [item EXCEPT !.status = "completed",
                 !.completions = @ + 1,
                 !.removals = @ + 1]

\* handleUploadError: mark failed and notify.
handleUploadError(item) ==
    [item EXCEPT !.status = "error", !.errors = @ + 1]

\* uploadSinglePart, up to tusUpload.start(): a part of a parted upload is
\* put into queueItem.parts as soon as its transfer object is built.
startPart(item, partNumber) ==
    IF item.totalParts > 1
    THEN [item EXCEPT !.parts = @ \cup {partNumber}]
    ELSE item

RECURSIVE startParts(_, _)
startParts(item, n) ==
    IF n = 0 THEN item ELSE startPart(startParts(item, n - 1), n)

\* processNext -> uploadFile: the item becomes uploading; a single part is
\* started directly, several parts after queueItem.parts = new Map().
uploadFile(item) ==
    startParts([item EXCEPT !.status = "uploading", !.parts = {}],
               item.totalParts)

\* onSuccess of one part's transfer.
onSuccess(item, partNumber) ==
    LET done == [item EXCEPT !.succeeded = @ \cup {partNumber}]
        set  == [done EXCEPT !.parts = @ \cup {partNumber}]
    IN  IF item.totalParts > 1
        THEN IF Cardinality(set.parts) = item.totalParts
             THEN handleUploadSuccess(set)
             ELSE set
        ELSE handleUploadSuccess(done)

\* onError of one part's transfer: the part's promise rejects; the first
\* rejection settles the awaited promise and processNext's catch runs.
onError(item, partNumber) ==
    LET done == [item EXCEPT !.failed = @ \cup {partNumber}]
    IN  IF item.failed = {} THEN handleUploadError(done) ELSE done

\* new UploadQueue(): no item, nothing in progress.  `items' maps the ids
\* generated so far to their items (an item stays reachable by its callbacks
\* after it left this.queue: its `queued' is then FALSE), `processTimers'
\* counts the pending setTimeout(processNext) callbacks.
NoUploadQueue ==
    [items |-> << >>, isProcessing |-> FALSE, currentUpload |-> 0,
     processTimers |-> 0]

\* this.queue.find(item => item.status === 'pending'): the first in the queue
pendingItems(q) ==
    {id \in DOMAIN q.items : q.items[id].queued /\ q.items[id].status = "pending"}

\* processNext
processNext(q) ==
    IF q.isProcessing THEN q
    ELSE IF pendingItems(q) = {} THEN [q EXCEPT !.isProcessing = FALSE]
    ELSE LET nextItem == CHOOSE id \in pendingItems(q) :
                             \A other \in pendingItems(q) : id <= other
         IN [q EXCEPT !.isProcessing = TRUE,
                      !.currentUpload = nextItem,
                      !.items[nextItem] = uploadFile(@)]

\* addFiles for one file: the item is pushed, and processing starts unless
\* it is running
addFilesToQueue(q, size) ==
    LET pushed == [q EXCEPT !.items = Append(@, addFiles(size))]
    IN IF q.isProcessing THEN pushed ELSE processNext(pushed)

\* what a callback of item id that turned the item into `item' does to the
\* queue: handleUploadSuccess and handleUploadError also clear currentUpload
\* and isProcessing and set a timer for processNext
afterCallback(q, id, item) ==
    LET handled == \/ item.completions > q.items[id].completions
                   \/ item.errors > q.items[id].errors
    IN IF handled
       THEN [q EXCEPT !.items[id] = item,
                      !.currentUpload = 0,
                      !.isProcessing = FALSE,
                      !.processTimers = @ + 1]
       ELSE [q EXCEPT !.items[id] = item]

\* removeFromQueue
removeFromQueue(q, id) == [q EXCEPT !.items[id].queued = FALSE]

\* cancelUpload: the transfers of an uploading item are aborted (they fire no
\* callback afterwards: their parts count as failed here), the item leaves
\* the queue, and if it was the current one the next is scheduled
cancelUpload(q, id) ==
    IF ~q.items[id].queued THEN q
    ELSE LET item == q.items[id]
             aborted == IF item.status = "uploading"
                        THEN [item EXCEPT !.failed =
                                 (1 .. item.totalParts) \ item.succeeded]
                        ELSE item
             removed == removeFromQueue([q EXCEPT !.items[id] = aborted], id)
         IN IF q.currentUpload = id
            THEN [removed EXCEPT !.currentUpload = 0,
                                 !.isProcessing = FALSE,
                                 !.processTimers = @ + 1]
            ELSE removed

-----------------------------------------------------------------------------
(* What clients declare *)

NameAB == <<"a", ".", "b">>

\* the metadata of a whole-file session (src/unnamed/part_002, uploadSinglePart)
SingleMeta(filename, path, policy) ==
    [NoMetadata EXCEPT !.filename = filename, !.path = path,
                       !.useOriginalFilename = StrTrue,
                       !.onDuplicateFiles = policy,
                       !.isPartedUpload = StrFalse]

\* the metadata of part partNumber of totalParts of the file named original
PartMeta(original, partNumber, totalParts, path, policy) ==
    [NoMetadata EXCEPT
        !.filename = original \o <<".", "p">> \o NumberToString(partNumber),
        !.path = path,
        !.useOriginalFilename = StrTrue,
        !.onDuplicateFiles = policy,
        !.isPartedUpload = StrTrue,
        !.originalFilename = original,
        !.partNumber = NumberToString(partNumber),
        !.totalParts = NumberToString(totalParts)]

\* the two parts of a.b, published over an existing a.b
PartedMenu == {PartMeta(NameAB, n, 2, Absent, Absent) : n \in 1..2}

\* whole-file sessions of a.b under the "prevent" and "number" policies
SingleMenu ==
    {SingleMeta(NameAB, Absent, policy) : policy \in {StrPrevent, StrNumber}}
    \cup {SingleMeta(NameAB, NameAB \o <<"/", "d">>, StrPrevent)}

\* what the clients of one behaviour declare
Menus == {PartedMenu, SingleMenu}

NoSessions == [i \in Sessions |-> [status |-> "none", metadata |-> NoMetadata]]

Init ==
    /\ fs = EmptyVolume
    /\ partedUploads = <<>>
    /\ now = 0
    /\ uploads = NoSessions
    /\ content = [i \in Sessions |-> <<i>>]
    /\ menu \in Menus
    /\ timers = {}
    /\ triggered = <<>>
    /\ queueItem = NoQueueItem
    /\ uploadQueue = NoUploadQueue
    /\ log = NoLog

Next ==
    \/ \E i \in Sessions, meta \in menu : CreateUpload(i, meta)
    \/ \E i \in Sessions : FinishUpload(i)
    \/ \E t \in timers : PublishTimer(t)
    \/ Sweep
    \/ Tick
    \/ \E filePath \in DeleteInputs : DeleteFiles(filePath)

Spec == Init /\ [][Next]_vars

TypeOK == WellFormed(fs)


-----------------------------------------------------------------------------
(* Claims about the part tracker and the concatenator, under Spec *)

\* C1: concatenation is triggered at most once per PartGroup: two completion
\* events never both observe a received-part count equal to totalParts for
\* the same group.
C1_AtMostOneConcatenation ==
    \A key \in DOMAIN triggered : triggered[key] <= 1

\* C2: a PartGroup whose received-part count reached totalParts is removed
\* from the tracker by the handler of that completion event, whether the
\* concatenation succeeded or failed: no later completion and no sweep finds
\* it tracked.
C2_CompleteGroupRemoved ==
    \A key \in DOMAIN partedUploads : Triggered(key) = 0

\* C5: if the staged content of some part 1..totalParts is absent when all
\* declared parts are registered, concatenateAndCleanup signals an error and
\* no file exists at the final destination path once it has returned.
C5_MissingPartFails ==
    (log.op = "finish" /\ log.concat # NoConcat /\ log.missing)
        => /\ log.concat.threw
           /\ ~IsFile(fs, log.concat.finalFilePath)

C5_Witness ==
    /\ log.op = "finish"
    /\ log.concat # NoConcat
    /\ log.missing
    /\ log.concat.threw

Ids(uploadInfo) == {uploadInfo.uploadIds[n] : n \in DOMAIN uploadInfo.uploadIds}

\* the sweep removed the group tracked under key and the files of its parts
Reaped(key) ==
    /\ key \notin DOMAIN partedUploads'
    /\ \A id \in Ids(partedUploads[key]) :
          StagedPath(id) \notin DOMAIN fs' /\ SidecarPath(id) \notin DOMAIN fs'

Same(p) == IF p \in DOMAIN fs THEN p \in DOMAIN fs' /\ fs'[p] = fs[p]
           ELSE p \notin DOMAIN fs'

\* the sweep left the group tracked under key and the files of its parts alone
Untouched(key) ==
    /\ key \in DOMAIN partedUploads'
    /\ partedUploads'[key] = partedUploads[key]
    /\ \A id \in Ids(partedUploads[key]) : Same(StagedPath(id)) /\ Same(SidecarPath(id))

\* C6, as claimed: a sweep at time t removes a group created at time T, with
\* the staged content and sidecar of every recorded part, if
\* t >= T + PART_TIMEOUT, and leaves it untouched if t < T + PART_TIMEOUT.
C6_ReapedFromTimeout ==
    [][Sweep => \A key \in DOMAIN partedUploads :
                  IF now >= partedUploads[key].timestamp + PART_TIMEOUT
                  THEN Reaped(key) ELSE Untouched(key)]_vars

\* C6, amended: a sweep at time t removes the group, with the staged content
\* and sidecar of every recorded part, if t > T + PART_TIMEOUT, and leaves
\* it untouched if t <= T + PART_TIMEOUT.
C6_ReapedAfterTimeout ==
    [][Sweep => \A key \in DOMAIN partedUploads :
                  IF now > partedUploads[key].timestamp + PART_TIMEOUT
                  THEN Reaped(key) ELSE Untouched(key)]_vars

C6_Witness == log.op = "sweep" /\ log.reaped # {}

-----------------------------------------------------------------------------
(* Claims about the duplicate guard, under Spec *)

\* C7: a POST with useOriginalFilename = "true" for which an entry named
\* sanitize(filename) exists in the resolved target directory is refused with
\* 409 and creates no session under "prevent", and is passed on to the
\* transfer engine under "number".
C7_DuplicateGuard ==
    (/\ log.op = "create"
     /\ log.metadata.useOriginalFilename = StrTrue
     /\ log.entryExisted)
        => /\ log.metadata.onDuplicateFiles = StrPrevent
                => log.response = "409" /\ ~log.created
           /\ log.metadata.onDuplicateFiles = StrNumber
                => log.response = "next" /\ log.created

C7_Witness ==
    /\ log.op = "create"
    /\ log.metadata.onDuplicateFiles = StrPrevent
    /\ log.entryExisted
    /\ log.response = "409"

\* C8: when a step of the duplicate check raises an error the request is
\* passed on to the transfer engine and is not refused.
C8_GuardFailsOpen ==
    (log.op = "create" /\ log.threw) => log.response = "next" /\ log.created

C8_Witness == log.op = "create" /\ log.threw


-----------------------------------------------------------------------------
(* Path resolution over every path string: SpecPath *)

Strings(chars, n) == UNION {[1..k -> chars] : k \in 0..n}

PathStrings == Strings({".", "/", "d"}, MaxPathLen)

\* one client, declaring one path: to the guard and the single-file publisher,
\* or to the part tracker
InitPath ==
    /\ fs = EmptyVolume
    /\ partedUploads = <<>>
    /\ now = 0
    /\ uploads = NoSessions
    /\ content = [i \in Sessions |-> <<i>>]
    /\ menu \in {{SingleMeta(NameAB, path, StrPrevent)} : path \in PathStrings}
                \cup {{PartMeta(NameAB, 1, 2, path, Absent)} : path \in PathStrings}
    /\ timers = {}
    /\ triggered = <<>>
    /\ queueItem = NoQueueItem
    /\ uploadQueue = NoUploadQueue
    /\ log = NoLog

NextPath ==
    \/ \E i \in Sessions, meta \in menu : CreateUpload(i, meta)
    \/ \E i \in Sessions : FinishUpload(i)
    \/ \E t \in timers : PublishTimer(t)

SpecPath == InitPath /\ [][NextPath]_vars

\* the storage root or a descendant of it
InsideRoot(dir) == IsPrefix(uploadsDir, dir)

\* C9: for every path metadata string the target directory resolved by the
\* guard, by the single-file publisher and by the part tracker is the storage
\* root or a descendant of it.
C9_TargetInsideRoot ==
    /\ (log.op = "create" /\ log.targetDir # NoDir) => InsideRoot(log.targetDir)
    /\ (log.op = "finish" /\ log.kind # "ignored") => InsideRoot(log.targetDir)
    /\ \A key \in DOMAIN partedUploads : InsideRoot(partedUploads[key].targetDir)

C9_Witness ==
    /\ log.op = "finish"
    /\ log.kind = "parted"
    /\ Includes(log.metadata.path, <<".", ".", ".">>)
    /\ log.metadata.path[1] = "/"
    /\ log.targetDir # uploadsDir

-----------------------------------------------------------------------------
(* The "number" policy over directories with numbered names: SpecNumber *)

MaxNumbered == 2

NumberNames == {NameAB, <<"a">>, <<".", "b">>}

\* base(k)ext
Candidate(name, k) ==
    basename(name, extname(name)) \o <<"(">> \o NumberToString(k) \o <<")">>
        \o extname(name)

VolumeWith(names) ==
    [p \in DOMAIN EmptyVolume \cup {PathJoin(uploadsDir, n) : n \in names} |->
        IF p \in DOMAIN EmptyVolume THEN Dir ELSE File(<<0>>)]

InitNumber ==
    /\ \E name \in NumberNames :
         /\ \E names \in SUBSET ({name} \cup {Candidate(name, k) : k \in 1..MaxNumbered}) :
               fs = VolumeWith(names)
         /\ menu \in {{SingleMeta(name, Absent, StrNumber)},
                      {PartMeta(name, 1, 1, Absent, StrNumber)}}
    /\ partedUploads = <<>>
    /\ now = 0
    /\ uploads = NoSessions
    /\ content = [i \in Sessions |-> <<i>>]
    /\ timers = {}
    /\ triggered = <<>>
    /\ queueItem = NoQueueItem
    /\ uploadQueue = NoUploadQueue
    /\ log = NoLog

SpecNumber == InitNumber /\ [][NextPath]_vars

Last(p) == p[Len(p)]

\* a completion event whose handler resolved a final name
ResolvedName ==
    /\ \E i \in Sessions : uploads[i].status = "open" /\ uploads'[i].status = "done"
    /\ \/ log'.kind = "single" /\ ~log'.threw
       \/ log'.kind = "parted" /\ log'.concat # NoConcat

\* C10: under the "number" policy the resolved final name is the name itself
\* when no entry has it, and otherwise base(k)ext for the lowest k >= 1 that
\* no entry of the target directory has.
C10_LowestFreeNumber ==
    [][ResolvedName =>
        LET single == log'.kind = "single"
            name == sanitize(IF single THEN log'.metadata.filename
                             ELSE log'.metadata.originalFilename)
            dir == IF single THEN log'.targetDir ELSE log'.uploadInfo.targetDir
            policy == IF single THEN log'.metadata.onDuplicateFiles
                      ELSE log'.uploadInfo.metadata.onDuplicateFiles
            final == IF single THEN Last(log'.timer.newFilePath)
                     ELSE Last(log'.concat.finalFilePath)
            Taken(n) == PathJoin(dir, n) \in DOMAIN fs
        IN policy = StrNumber =>
             IF Taken(name)
             THEN \E k \in 1..(MaxNumbered + MaxSessions + 1) :
                     /\ final = Candidate(name, k)
                     /\ ~Taken(final)
                     /\ \A j \in 1..(k - 1) : Taken(Candidate(name, j))
             ELSE final = name]_vars

C10_Witness ==
    /\ log.op = "finish"
    /\ log.kind = "single"
    /\ Last(log.timer.newFilePath) = Candidate(NameAB, 1)
    /\ PathJoin(uploadsDir, Candidate(NameAB, 2)) \in DOMAIN fs

-----------------------------------------------------------------------------
(* Parted uploads of every part size, completing in every order: SpecConcat *)

\* the bytes of session i: len bytes, each different from every other byte
Bytes(i, len) == [k \in 1..len |-> 10 * i + k]

InitConcat ==
    /\ fs = EmptyVolume
    /\ partedUploads = <<>>
    /\ now = 0
    /\ uploads = NoSessions
    /\ \E len \in [Sessions -> 0..MaxPartLen] :
          content = [i \in Sessions |-> Bytes(i, len[i])]
    /\ \E N \in 1..MaxSessions :
          menu = {PartMeta(NameAB, n, N, Absent, Absent) : n \in 1..N}
    /\ timers = {}
    /\ triggered = <<>>
    /\ queueItem = NoQueueItem
    /\ uploadQueue = NoUploadQueue
    /\ log = NoLog

NextConcat ==
    \/ \E i \in Sessions, meta \in menu : CreateUpload(i, meta)
    \/ \E i \in Sessions : FinishUpload(i)

SpecConcat == InitConcat /\ [][NextConcat]_vars

Created == {i \in Sessions : uploads[i].status # "none"}

Done == {i \in Sessions : uploads[i].status = "done"}

PartNumberOf(i) == parseInt(uploads[i].metadata.partNumber)

\* the totalParts every part of the menu declares
Declared == parseInt((CHOOSE meta \in menu : TRUE).totalParts).num

\* the volume with the content of every session staged
AllStaged ==
    LET staged == {StagedPath(UploadId(i)) : i \in Created}
        sidecars == {SidecarPath(UploadId(i)) : i \in Created}
    IN [p \in DOMAIN EmptyVolume \cup staged \cup sidecars |->
          IF p \in DOMAIN EmptyVolume THEN Dir
          ELSE IF p \in sidecars THEN File(<<>>)
          ELSE File(content[CHOOSE i \in Created : StagedPath(UploadId(i)) = p])]

RECURSIVE InOrderFrom(_, _, _)
\* the file system after the sessions of parts n, n + 1, ... completed in
\* that order
InOrderFrom(n, f, tracker) ==
    IF n > Declared THEN f
    ELSE LET i == CHOOSE j \in Created : PartNumberOf(j) = Number(n)
             r == postFinish(f, tracker, 0, UploadId(i), uploads[i].metadata)
         IN InOrderFrom(n + 1, r.fs, r.partedUploads)

\* C3: when the N sessions of a parted upload carry the part numbers 1..N,
\* whatever the order of their completions, no concatenation is triggered
\* before the N-th completion, exactly one is triggered by it, and the file
\* system it leaves is the one completion in the order 1..N leaves.
C3_OrderIndependent ==
    (/\ Cardinality(Created) = Declared
     /\ {PartNumberOf(i) : i \in Created} = {Number(n) : n \in 1..Declared})
        => IF Done = Created
           THEN /\ Triggered(NameAB) = 1
                /\ NameAB \notin DOMAIN partedUploads
                /\ fs = InOrderFrom(1, AllStaged, <<>>)
           ELSE Triggered(NameAB) = 0

C3_Witness ==
    /\ Declared = 3
    /\ Done = Created
    /\ Cardinality(Created) = Declared
    /\ {PartNumberOf(i) : i \in Created} = {Number(n) : n \in 1..Declared}
    /\ PartNumberOf(1) = Number(3)
    /\ log.op = "finish"
    /\ log.id = 2
    /\ IsFile(fs, PathJoin(uploadsDir, NameAB))

SessionOf(id) == CHOOSE i \in Sessions : UploadId(i) = id

RECURSIVE Appended(_, _, _)
\* the content of parts n..totalParts, in ascending part-number order
Appended(uploadIds, n, totalParts) ==
    IF n > totalParts THEN <<>>
    ELSE content[SessionOf(uploadIds[Number(n)])]
            \o Appended(uploadIds, n + 1, totalParts)

\* C4: when concatenation succeeds the final file holds the staged content of
\* part 1, part 2, ..., part totalParts, appended in that order, every byte
\* once, whatever the part sizes.
C4_ConcatenatedInOrder ==
    (log.op = "finish" /\ log.concat # NoConcat /\ ~log.concat.threw)
        => /\ IsFile(fs, log.concat.finalFilePath)
           /\ fs[log.concat.finalFilePath].data =
                 Appended(log.uploadInfo.uploadIds, 1,
                          parseInt(log.metadata.totalParts).num)

C4_Witness ==
    /\ log.op = "finish"
    /\ log.concat # NoConcat
    /\ ~log.concat.threw
    /\ \E i, j, k \in Done :
          /\ Len(content[i]) < bufferSize /\ Len(content[i]) > 0
          /\ Len(content[j]) = bufferSize
          /\ Len(content[k]) > bufferSize
    /\ Len(fs[log.concat.finalFilePath].data) = 3 * bufferSize

-----------------------------------------------------------------------------
(* Claims about the single-file publisher *)

\* the step is the completion of a session
Completes ==
    \E i \in Sessions : uploads[i].status = "open" /\ uploads'[i].status = "done"

\* the step is the setTimeout callback of a completed whole-file session
Publishes == log'.op = "publish" /\ log'.timer \in timers /\ log'.timer \notin timers'

\* C11: when a whole-file session under the "number" policy completes and an
\* entry named sanitize(filename) exists in the target directory, the name
\* resolved is a numbered one that no entry of the directory has, and the
\* publish step puts the staged content there and changes no other entry
\* outside staging: every file the directory had at completion keeps its
\* content.
C11_NumberedPublishKeepsFiles ==
    [][/\ (/\ Completes
           /\ log'.kind = "single"
           /\ ~log'.threw
           /\ log'.metadata.onDuplicateFiles = StrNumber
           /\ existsSync(fs, PathJoin(log'.targetDir, sanitize(log'.metadata.filename))))
          => /\ log'.timer.newFilePath \notin DOMAIN fs
             /\ Parent(log'.timer.newFilePath) = log'.targetDir
             /\ \E k \in 1..(MaxNumbered + MaxSessions + 1) :
                   Last(log'.timer.newFilePath) =
                      Candidate(sanitize(log'.metadata.filename), k)
             /\ \A p \in DOMAIN fs : Parent(p) = log'.targetDir => Same(p)
       /\ (Publishes /\ log'.outcome = "published")
          => /\ IsFile(fs', log'.timer.newFilePath)
             /\ fs'[log'.timer.newFilePath] = fs[log'.timer.uuidFilePath]
             /\ \A p \in DOMAIN fs :
                   p \notin {log'.timer.newFilePath, log'.timer.uuidFilePath,
                             log'.timer.jsonFilePath} => Same(p)]_vars

C11_Witness ==
    /\ log.op = "publish"
    /\ log.outcome = "published"
    /\ log.timer.newFilePath = PathJoin(uploadsDir, Candidate(NameAB, 1))
    /\ fs[log.timer.newFilePath].data = content[SessionOf(log.timer.id)]
    /\ fs[PathJoin(uploadsDir, NameAB)].data = <<0>>

\* C12, as claimed: when the publish step of a completed whole-file session
\* finds the staged content present, afterwards that content is at the final
\* path and neither the staged content nor the sidecar is left in staging.
C12_PublishedAndUnstaged ==
    [][(Publishes /\ IsFile(fs, log'.timer.uuidFilePath))
          => /\ IsFile(fs', log'.timer.newFilePath)
             /\ fs'[log'.timer.newFilePath] = fs[log'.timer.uuidFilePath]
             /\ log'.timer.uuidFilePath \notin DOMAIN fs'
             /\ log'.timer.jsonFilePath \notin DOMAIN fs']_vars

\* C12, amended: when the publish step finds the staged content present and
\* the move to the final path succeeds, afterwards that content is at the
\* final path and neither the staged content nor the sidecar is left in
\* staging; when the move fails nothing changes.
C12_PublishedWhenMoved ==
    [][(Publishes /\ IsFile(fs, log'.timer.uuidFilePath))
          => IF renameSync(fs, log'.timer.uuidFilePath, log'.timer.newFilePath).ok
             THEN /\ IsFile(fs', log'.timer.newFilePath)
                  /\ fs'[log'.timer.newFilePath] = fs[log'.timer.uuidFilePath]
                  /\ log'.timer.uuidFilePath \notin DOMAIN fs'
                  /\ log'.timer.jsonFilePath \notin DOMAIN fs'
             ELSE fs' = fs]_vars

C12_Witness ==
    /\ log.op = "publish"
    /\ log.outcome = "published"
    /\ log.timer.newFilePath = PathJoin(uploadsDir, NameAB \o <<"/", "d", "/">> \o NameAB)
    /\ IsFile(fs, log.timer.newFilePath)
    /\ log.timer.uuidFilePath \notin DOMAIN fs
    /\ log.timer.jsonFilePath \notin DOMAIN fs

-----------------------------------------------------------------------------
(* Parted uploads onto a volume that has an entry at the final path:
   SpecExisting *)

\* the volume with nothing, a file or a directory named a.b at the root
ExistingVolumes ==
    {EmptyVolume,
     VolumeWith({NameAB}),
     [p \in DOMAIN EmptyVolume \cup {PathJoin(uploadsDir, NameAB)} |-> Dir]}

InitExisting ==
    /\ fs \in ExistingVolumes
    /\ partedUploads = <<>>
    /\ now = 0
    /\ uploads = NoSessions
    /\ content = [i \in Sessions |-> <<i>>]
    /\ \E policy \in {Absent, StrNumber} :
          menu = {PartMeta(NameAB, n, 2, Absent, policy) : n \in 1..2}
    /\ timers = {}
    /\ triggered = <<>>
    /\ queueItem = NoQueueItem
    /\ uploadQueue = NoUploadQueue
    /\ log = NoLog

NextExisting ==
    \/ \E i \in Sessions, meta \in menu : CreateUpload(i, meta)
    \/ \E i \in Sessions : FinishUpload(i)
    \/ \E filePath \in DeleteInputs : DeleteFiles(filePath)

SpecExisting == InitExisting /\ [][NextExisting]_vars

\* the last step was a completion that attempted a concatenation
Concatenated == log.op = "finish" /\ log.concat # NoConcat

\* the staged content and the sidecar of the parts 1..totalParts of the group
\* the last step concatenated
PartFiles ==
    {StagedPath(log.uploadInfo.uploadIds[n]) : n \in DOMAIN log.uploadInfo.uploadIds}

PartSidecars ==
    {SidecarPath(log.uploadInfo.uploadIds[n]) : n \in DOMAIN log.uploadInfo.uploadIds}

\* C13: after a successful concatenation no temp file remains, the final path
\* holds a file, and the staged content and sidecar of every part of the
\* group are gone; parts are deleted only after the rename: an attempt that
\* found every part and failed has deleted none of them.
C13_RenamedThenCleaned ==
    /\ (Concatenated /\ ~log.concat.threw)
          => /\ log.concat.tempFilePath \notin DOMAIN fs
             /\ IsFile(fs, log.concat.finalFilePath)
             /\ \A p \in PartFiles \cup PartSidecars : p \notin DOMAIN fs
    /\ (Concatenated /\ log.concat.threw /\ ~log.missing)
          => \A p \in PartFiles : IsFile(fs, p)

C13_Witness ==
    /\ Concatenated
    /\ ~log.concat.threw
    /\ Cardinality(PartFiles) = 2
    /\ IsFile(fs, log.concat.finalFilePath)
    /\ log.concat.tempFilePath \notin DOMAIN fs
    /\ \A p \in PartFiles \cup PartSidecars : p \notin DOMAIN fs

\* the rename of the temp file failed with every part staged
C13_RenameFailed == Concatenated /\ log.concat.threw /\ ~log.missing

-----------------------------------------------------------------------------
(* The sanitizer over every filename: SpecSanitize *)

MaxNameLen == 3

\* UTF-16 code units: of the class [a-zA-Z0-9._-], and a space, a slash, a
\* parenthesis, a Latin-1 letter and a surrogate outside it
FilenameChars == {"a", "5", ".", "_", "-", " ", "/", "(", "U+00E9", "U+D83D"}

Filenames == Strings(FilenameChars, MaxNameLen)

InitSanitize ==
    /\ fs = EmptyVolume
    /\ partedUploads = <<>>
    /\ now = 0
    /\ uploads = NoSessions
    /\ content = [i \in Sessions |-> <<i>>]
    /\ menu \in {{SingleMeta(name, Absent, StrPrevent)} : name \in Filenames}
    /\ timers = {}
    /\ triggered = <<>>
    /\ queueItem = NoQueueItem
    /\ uploadQueue = NoUploadQueue
    /\ log = NoLog

SpecSanitize == InitSanitize /\ [][NextPath]_vars

\* C14: the sanitized name of every filename has only characters of
\* [A-Za-z0-9._-], has the length of the filename, and sanitizing it again
\* changes nothing.
C14_SanitizeSafeIdempotent ==
    log.op = "create"
        => LET x == log.metadata.filename
               y == sanitize(x)
           IN /\ \A k \in 1..Len(y) : y[k] \in SafeChars
              /\ Len(y) = Len(x)
              /\ sanitize(y) = y

C14_Witness ==
    /\ log.op = "create"
    /\ log.metadata.filename = <<"U+D83D", "/", "a">>
    /\ sanitize(log.metadata.filename) = <<"_", "_", "a">>

-----------------------------------------------------------------------------
(* Sessions with every value of useOriginalFilename: SpecFlag *)

\* absent, "false", a differently spelled "True", and "true"
FlagValues == {Absent, StrFalse, <<"True">>, StrTrue}

InitFlag ==
    /\ fs \in ExistingVolumes
    /\ partedUploads = <<>>
    /\ now = 0
    /\ uploads = NoSessions
    /\ content = [i \in Sessions |-> <<i>>]
    /\ \E flag \in FlagValues :
          menu = {[SingleMeta(NameAB, Absent, StrNumber)
                     EXCEPT !.useOriginalFilename = flag],
                  [PartMeta(NameAB, 1, 1, Absent, Absent)
                     EXCEPT !.useOriginalFilename = flag]}
    /\ timers = {}
    /\ triggered = <<>>
    /\ queueItem = NoQueueItem
    /\ uploadQueue = NoUploadQueue
    /\ log = NoLog

SpecFlag == InitFlag /\ [][NextPath]_vars

\* C15: the completion of a session whose useOriginalFilename is not "true"
\* changes nothing: the bytes the engine stored and the sidecar stay in
\* staging, every other entry of the volume is as it was, the part tracker is
\* as it was, and no publish is scheduled.
C15_IgnoredCompletion ==
    [][(Completes /\ log'.metadata.useOriginalFilename # StrTrue)
          => /\ partedUploads' = partedUploads
             /\ timers' = timers
             /\ DOMAIN fs' = DOMAIN fs
             /\ \A p \in DOMAIN fs :
                   IF p = StagedPath(UploadId(log'.id))
                   THEN fs'[p] = File(content[log'.id])
                   ELSE fs'[p] = fs[p]]_vars

C15_Witness ==
    /\ log.op = "finish"
    /\ log.kind = "ignored"
    /\ log.metadata.useOriginalFilename = <<"True">>
    /\ log.metadata.isPartedUpload = StrTrue
    /\ fs[StagedPath(UploadId(log.id))] = File(content[log.id])
    /\ SidecarPath(UploadId(log.id)) \in DOMAIN fs
    /\ partedUploads = <<>>

-----------------------------------------------------------------------------
(* The client splits one file and uploads each part in a session of its own;
   the sessions complete in any order.  content[0] is the file the client
   holds, content[i] the blob of part i. *)

MaxFileSize == 33

\* the bytes of a file of the given size, each distinct
FileBytes(size) == [k \in 1..size |-> k]

\* the metadata uploadSinglePart gives the session of one part
partMetadata(part) ==
    IF part.totalParts > 1
    THEN PartMeta(part.name, part.partNumber, part.totalParts, Absent, StrNumber)
    ELSE SingleMeta(part.name, Absent, StrNumber)

InitSplit ==
    /\ fs = EmptyVolume
    /\ partedUploads = <<>>
    /\ now = 0
    /\ \E size \in 0..MaxFileSize :
          LET Queued(parts) ==
                 /\ uploads = [i \in 1..Len(parts) |->
                                 [status |-> "none", metadata |-> NoMetadata]]
                 /\ content = [i \in 0..Len(parts) |->
                                 IF i = 0 THEN FileBytes(size) ELSE parts[i].blob]
                 /\ menu = {partMetadata(parts[i]) : i \in 1..Len(parts)}
          IN Queued(splitFileIntoParts([name |-> NameAB, bytes |-> FileBytes(size)]))
    /\ timers = {}
    /\ triggered = <<>>
    /\ queueItem = NoQueueItem
    /\ uploadQueue = NoUploadQueue
    /\ log = NoLog

\* the metadata of the session that carries part i
MetadataOfPart(i) ==
    CHOOSE meta \in menu :
        meta.isPartedUpload = StrTrue => meta.partNumber = NumberToString(i)

NextSplit ==
    \/ \E i \in DOMAIN uploads : CreateUpload(i, MetadataOfPart(i))
    \/ \E i \in DOMAIN uploads : FinishUpload(i)
    \/ \E t \in timers : PublishTimer(t)

SpecSplit == InitSplit /\ [][NextSplit]_vars

AllPartsDone == \A i \in DOMAIN uploads : uploads[i].status = "done"

\* the volume that holds the original file at /w/a.b and nothing else
ReassembledVolume ==
    [p \in DOMAIN EmptyVolume \cup {PathJoin(uploadsDir, NameAB)} |->
       IF p \in DOMAIN EmptyVolume THEN Dir ELSE File(content[0])]

\* C16: the client splits a file into N parts of ceil(size/N) bytes, numbered
\* 1..N, each declaring totalParts = N; once the sessions of all parts have
\* completed, in whatever order, the volume holds exactly one file, its bytes
\* are those of the original file, one concatenation ran, and nothing is left
\* in staging; until then no file is published.
C16_SplitThenReassembled ==
    Len(uploads) > 1 =>
    /\ \A i \in DOMAIN uploads :
          /\ Len(content[i]) <= Ceil(Len(content[0]), Len(uploads))
          /\ uploads[i].status # "none" =>
                /\ uploads[i].metadata.partNumber = NumberToString(i)
                /\ uploads[i].metadata.totalParts = NumberToString(Len(uploads))
    /\ IF AllPartsDone
       THEN /\ fs = ReassembledVolume
            /\ Len(fs[PathJoin(uploadsDir, NameAB)].data) = Len(content[0])
            /\ Triggered(NameAB) = 1
            /\ partedUploads = <<>>
       ELSE PathJoin(uploadsDir, NameAB) \notin DOMAIN fs

\* a file of four parts whose size four does not divide, the session of part 1
\* completing last
C16_Witness ==
    /\ AllPartsDone
    /\ Len(uploads) = 4
    /\ Len(content[0]) % 4 # 0
    /\ log.op = "finish" /\ log.id = 1
    /\ fs = ReassembledVolume

\* the sessions of the split file that have completed
DoneParts == {i \in DOMAIN uploads : uploads[i].status = "done"}

\* the totalParts the metadata of session i declares
DeclaredBy(i) == parseInt(uploads[i].metadata.totalParts).num

\* C18: a file of size s is split into 1 part when s < 32 MB, 2 parts when
\* 32 MB <= s < 512 MB, 4 parts when 512 MB <= s < 1024 MB and 6 parts
\* otherwise (sizes in units of 32 MB: 1, 16 and 32); the tracker concatenates
\* exactly when the parts recorded number the totalParts the completing part
\* declares, whatever the size of the bytes received so far.
C18_PartCountPolicy ==
    /\ Len(content[0]) < 1 => Len(uploads) = 1
    /\ (1 <= Len(content[0]) /\ Len(content[0]) < 16) => Len(uploads) = 2
    /\ (16 <= Len(content[0]) /\ Len(content[0]) < 32) => Len(uploads) = 4
    /\ 32 <= Len(content[0]) => Len(uploads) = 6
    /\ \A i \in DoneParts :
          uploads[i].metadata.isPartedUpload = StrTrue =>
             /\ Triggered(NameAB) =
                   (IF Cardinality(DoneParts) = DeclaredBy(i) THEN 1 ELSE 0)
             /\ NameAB \in DOMAIN partedUploads =>
                   /\ partedUploads[NameAB].metadata.totalParts =
                         uploads[i].metadata.totalParts
                   /\ Cardinality(partedUploads[NameAB].parts) < DeclaredBy(i)

\* a file of exactly 512 MB went up in four parts and the fourth completion
\* concatenated them
C18_Witness ==
    /\ Len(content[0]) = 16
    /\ Len(uploads) = 4
    /\ Cardinality(DoneParts) = 4
    /\ log.op = "finish" /\ log.concat # NoConcat
    /\ Triggered(NameAB) = 1

-----------------------------------------------------------------------------
(* The directory operations, on a volume where the storage root /w has a
   sibling /wb whose name begins with the text of the root's name *)

\* GET /api/files?path=path
ListFiles(path) ==
    /\ LET r == listFiles(fs, path)
       IN log' = [op |-> "list", path |-> path, status |-> r.status,
                  fullPath |-> r.fullPath, items |-> r.items]
    /\ UNCHANGED <<fs, partedUploads, now, uploads, content, menu, timers, triggered,
                   queueItem, uploadQueue>>

\* PATCH /api/files { sourcePath, destinationPath }
MoveFiles(sourcePath, destinationPath) ==
    /\ LET r == moveFiles(fs, sourcePath, destinationPath)
       IN /\ fs' = r.fs
          /\ log' = [op |-> "move", path |-> sourcePath,
                     destinationPath |-> destinationPath, status |-> r.status]
    /\ UNCHANGED <<partedUploads, now, uploads, content, menu, timers, triggered,
                   queueItem, uploadQueue>>

\* POST /api/folders { path, name }
CreateFolder(folderPath, folderName) ==
    /\ LET r == createFolder(fs, folderPath, folderName)
       IN /\ fs' = r.fs
          /\ log' = [op |-> "folder", path |-> folderPath, name |-> folderName,
                     status |-> r.status]
    /\ UNCHANGED <<partedUploads, now, uploads, content, menu, timers, triggered,
                   queueItem, uploadQueue>>

\* request paths: relative, absolute inside the root, absolute outside it,
\* with "..", and absolute into the sibling /wb
RequestPaths ==
    {Absent, <<"/">>, <<"a">>, <<"d">>, <<"d", "/", "a">>,
     <<"/", "d">>, <<".", ".", "/", "d">>,
     <<"/", "w", "b">>, <<"/", "w", "b", "/", "a">>}

\* folders as <<path, name>>: in the root, in the sibling, outside, and with
\* names the endpoint refuses
FolderRequests ==
    {<< <<"/">>, <<"d">> >>,
     << <<"/", "w", "b">>, <<"d">> >>,
     << <<"/", "d">>, <<"d">> >>,
     << <<"/">>, <<".", ".">> >>,
     << <<"/">>, <<"a", "/", "d">> >>,
     << Absent, <<"d">> >>}

\* moves as <<sourcePath, destinationPath>>: inside the root, from and into
\* the sibling, from outside, with "..", and without a destination
MoveRequests ==
    {<< <<"a">>, <<"d", "/", "a">> >>,
     << <<"d">>, <<"/", "w", "b", "/", "d">> >>,
     << <<"a">>, <<"/", "w", "b", "/", "a">> >>,
     << <<"/", "w", "b", "/", "a">>, <<"a">> >>,
     << <<"/", "d">>, <<"a">> >>,
     << <<".", ".", "/", "d">>, <<"a">> >>,
     << <<"a">>, Absent >>}

\* /w/a inside the root; /wb/a and /d/a outside it
SiblingVolume ==
    LET files == {<<<<"w">>, <<"a">>>>, <<<<"w", "b">>, <<"a">>>>, <<<<"d">>, <<"a">>>>}
        dirs == DOMAIN EmptyVolume \cup {<< <<"w", "b">> >>, << <<"d">> >>}
    IN [p \in dirs \cup files |-> IF p \in dirs THEN Dir ELSE File(<<Len(p[1])>>)]

InitCrud ==
    /\ fs = SiblingVolume
    /\ partedUploads = <<>>
    /\ now = 0
    /\ uploads = NoSessions
    /\ content = [i \in Sessions |-> <<>>]
    /\ menu = {}
    /\ timers = {}
    /\ triggered = <<>>
    /\ queueItem = NoQueueItem
    /\ uploadQueue = NoUploadQueue
    /\ log = NoLog

NextCrud ==
    \/ \E path \in RequestPaths : ListFiles(path)
    \/ \E path \in RequestPaths : DeleteFiles(path)
    \/ \E request \in MoveRequests : MoveFiles(request[1], request[2])
    \/ \E request \in FolderRequests : CreateFolder(request[1], request[2])

SpecCrud == InitCrud /\ [][NextCrud]_vars

\* C17: every list, delete, move and create-folder request is rejected or
\* touches only the storage root and its descendants: an entry outside the
\* root is neither listed, deleted, renamed nor created, whatever the
\* request path.
C17_ConfinedToRoot ==
    [][/\ \A p \in DOMAIN fs \cup DOMAIN fs' : ~InsideRoot(p) => Same(p)
       /\ (log'.op = "list" /\ log'.status = 200) => InsideRoot(log'.fullPath)]_vars

-----------------------------------------------------------------------------
(* Claims about failed concatenations and the reaper, under Spec *)

\* the group tracked under key has been through a concatenation that failed
FailedGroup(key) == key \in DOMAIN partedUploads /\ Triggered(key) >= 1

\* C19: after a concatenation attempt for a PartGroup has failed, no later
\* step (the completion of another part with the same originalFilename, a
\* sweep, a tick of the clock) triggers another concatenation attempt for
\* that group.
C19_NoSecondAttempt ==
    [][\A key \in DOMAIN partedUploads :
          FailedGroup(key) =>
             ~(/\ log'.op = "finish"
               /\ log'.concat # NoConcat
               /\ log'.metadata.originalFilename = key)]_vars

-----------------------------------------------------------------------------
(* The reaper over time.  Parts 1 and 2 of three declared parts arrive, the
   third never does; the clock runs on after the last arrival, and the
   callback of setInterval runs at every multiple of CLEANUP_INTERVAL. *)

\* the last time at which a session completes
LastArrival == 2

MaxClock == LastArrival + PART_TIMEOUT + CLEANUP_INTERVAL

InitReaper ==
    /\ fs = EmptyVolume
    /\ partedUploads = <<>>
    /\ now = 0
    /\ uploads = NoSessions
    /\ content = [i \in Sessions |-> <<i>>]
    /\ menu = {PartMeta(NameAB, n, 3, Absent, Absent) : n \in 1..2}
    /\ timers = {}
    /\ triggered = <<>>
    /\ queueItem = NoQueueItem
    /\ uploadQueue = NoUploadQueue
    /\ log = NoLog

\* a time unit passes
ClockAdvances ==
    /\ now < MaxClock
    /\ timers = {}
    /\ now' = now + 1

\* a time unit passes; when it ends on a multiple of CLEANUP_INTERVAL the
\* callback of setInterval runs cleanupOrphanedParts
Clock ==
    /\ ClockAdvances
    /\ LET Swept(r) ==
              /\ fs' = r.fs
              /\ partedUploads' = r.partedUploads
              /\ log' = [op |-> "sweep",
                         reaped |-> DOMAIN partedUploads \ DOMAIN r.partedUploads]
       IN IF (now + 1) % CLEANUP_INTERVAL = 0
          THEN Swept(cleanupOrphanedParts(fs, partedUploads, now + 1))
          ELSE /\ fs' = fs
               /\ partedUploads' = partedUploads
               /\ log' = [op |-> "tick"]
    /\ UNCHANGED <<uploads, content, menu, timers, triggered, queueItem, uploadQueue>>

NextReaper ==
    \/ \E i \in Sessions, meta \in menu : CreateUpload(i, meta)
    \/ \E i \in Sessions : now <= LastArrival /\ FinishUpload(i)
    \/ Clock

\* time passes and the interval timer keeps firing: Clock is the one action
\* that changes now, and it is enabled whenever ClockAdvances is
SpecReaper == InitReaper /\ [][NextReaper]_vars /\ WF_now(ClockAdvances)

\* a group created at time T is tracked under a.b
TrackedSince(T) ==
    NameAB \in DOMAIN partedUploads /\ partedUploads[NameAB].timestamp = T

\* C20: a PartGroup that never reaches totalParts is eventually removed by
\* the reaper, with the staged content and sidecar of every part recorded in
\* it, at the first sweep at which its age exceeds PART_TIMEOUT: a sweep
\* leaves a younger group alone, and no group is tracked
\* PART_TIMEOUT + CLEANUP_INTERVAL after its creation.
C20_OrphanReaped ==
    /\ \A T \in 0..LastArrival : TrackedSince(T) ~> ~TrackedSince(T)
    /\ [](\A key \in DOMAIN partedUploads :
             now - partedUploads[key].timestamp < PART_TIMEOUT + CLEANUP_INTERVAL)
    /\ [][\A key \in DOMAIN partedUploads :
             /\ log'.op = "sweep" =>
                   IF now' - partedUploads[key].timestamp > PART_TIMEOUT
                   THEN Reaped(key) ELSE Untouched(key)
             /\ key \notin DOMAIN partedUploads' => log'.op = "sweep"]_vars

\* a sweep has just removed a group of two parts whose age was
\* PART_TIMEOUT + CLEANUP_INTERVAL, the sweep before having left it alone
C20_Witness ==
    /\ log.op = "sweep"
    /\ log.reaped = {NameAB}
    /\ now = PART_TIMEOUT + CLEANUP_INTERVAL
    /\ \A i \in 1..2 : uploads[i].status = "done" /\ StagedPath(UploadId(i)) \notin DOMAIN fs
    /\ NameAB \notin DOMAIN partedUploads

-----------------------------------------------------------------------------
(* Claims about the registration of parts, under Spec *)

\* this step is the completion of a parted session whose part number the
\* group tracked under its originalFilename already records
Reregisters ==
    /\ log'.op = "finish"
    /\ log'.kind = "parted"
    /\ log'.metadata.originalFilename \in DOMAIN partedUploads
    /\ parseInt(log'.metadata.partNumber) \in
          partedUploads[log'.metadata.originalFilename].parts

RECURSIVE MappedBytes(_, _, _)
\* the bytes of the sessions uploadIds maps parts n..totalParts to
MappedBytes(uploadIds, n, totalParts) ==
    IF n > totalParts THEN <<>>
    ELSE content[SessionOf(uploadIds[Number(n)])]
            \o MappedBytes(uploadIds, n + 1, totalParts)

-----------------------------------------------------------------------------
(* Parts of one file that declare different paths and duplicate policies, on
   a volume that holds a.b in the root and in /w/d *)

DirD == PathJoin(uploadsDir, <<"d">>)

\* a.b in /w and in /w/d, each with content of its own
TwoCopies ==
    LET files == {PathJoin(uploadsDir, NameAB), PathJoin(DirD, NameAB)}
    IN [p \in DOMAIN EmptyVolume \cup {DirD} \cup files |->
          IF p \in files THEN File(<<Len(p)>>) ELSE Dir]

InitGroup ==
    /\ fs = TwoCopies
    /\ partedUploads = <<>>
    /\ now = 0
    /\ uploads = NoSessions
    /\ content = [i \in Sessions |-> <<i + MaxSessions>>]
    /\ \E inRoot, inD \in {Absent, StrNumber} :
          /\ inRoot # inD
          /\ menu = {PartMeta(NameAB, n, 2, Absent, inRoot) : n \in 1..2}
                    \cup {PartMeta(NameAB, n, 2, <<"d">>, inD) : n \in 1..2}
    /\ timers = {}
    /\ triggered = <<>>
    /\ queueItem = NoQueueItem
    /\ uploadQueue = NoUploadQueue
    /\ log = NoLog

NextGroup ==
    \/ \E i \in Sessions, meta \in menu : CreateUpload(i, meta)
    \/ \E i \in Sessions : FinishUpload(i)
    \/ Sweep
    \/ Tick

SpecGroup == InitGroup /\ [][NextGroup]_vars

\* this step is the completion of a parted session
PartCompletes == log'.op = "finish" /\ log'.kind = "parted"

\* C22: the target directory, metadata and timestamp of a PartGroup are those
\* of the completion that created it, and a later completion for the group
\* leaves them as they are, whatever path and policy it declares; the
\* reconstructed file goes into the directory of the first part, under a
\* numbered name if the first part's policy is "number" and over a.b
\* otherwise, and a.b in the other directory stays as it was.
C22_GroupFixedByFirstPart ==
    [][PartCompletes =>
         LET key == log'.metadata.originalFilename
             group == log'.uploadInfo
             final == log'.concat.finalFilePath
         IN /\ IF key \in DOMAIN partedUploads
               THEN /\ group.targetDir = partedUploads[key].targetDir
                    /\ group.metadata = partedUploads[key].metadata
                    /\ group.timestamp = partedUploads[key].timestamp
               ELSE /\ group.targetDir =
                          (IF Truthy(log'.metadata.path) THEN DirD ELSE uploadsDir)
                    /\ group.metadata = log'.metadata
                    /\ group.timestamp = now
            /\ key \in DOMAIN partedUploads' => partedUploads'[key] = group
            /\ (log'.concat # NoConcat /\ ~log'.concat.threw) =>
                  /\ Parent(final) = group.targetDir
                  /\ IF group.metadata.onDuplicateFiles = StrNumber
                     THEN /\ final \notin DOMAIN fs
                          /\ Same(PathJoin(uploadsDir, NameAB))
                          /\ Same(PathJoin(DirD, NameAB))
                     ELSE /\ final = PathJoin(group.targetDir, NameAB)
                          /\ fs'[final] # fs[final]
                          /\ \A dir \in {uploadsDir, DirD} \ {group.targetDir} :
                                Same(PathJoin(dir, NameAB))]_vars

\* the first part declared no path and "number", the second the path d and no
\* policy: the file is /w/a(1).b
C22_Witness ==
    /\ log.op = "finish" /\ log.concat # NoConcat /\ ~log.concat.threw
    /\ log.metadata.path = <<"d">>
    /\ log.metadata.onDuplicateFiles = Absent
    /\ log.uploadInfo.metadata.path = Absent
    /\ log.uploadInfo.metadata.onDuplicateFiles = StrNumber
    /\ log.uploadInfo.timestamp < now
    /\ Parent(log.concat.finalFilePath) = uploadsDir
    /\ log.concat.finalFilePath # PathJoin(uploadsDir, NameAB)
    /\ IsFile(fs, log.concat.finalFilePath)

-----------------------------------------------------------------------------
(* Claims about errors in the handlers, under Spec *)

\* C23: when the setTimeout callback of a completed whole-file session finds
\* the staged content absent, it reports "not found" and resolves: the file
\* system is left as it was, so no file is created or replaced at the final
\* path, and the session is not tried again: its timer is gone, and a timer
\* is only ever set by the completion of its own session.
C23_MissingStagedReported ==
    [][/\ (Publishes /\ ~existsSync(fs, log'.timer.uuidFilePath)) =>
            /\ log'.outcome = "not found"
            /\ fs' = fs
            /\ timers' = timers \ {log'.timer}
            /\ UNCHANGED <<partedUploads, uploads>>
       /\ \A t \in timers' \ timers :
            /\ uploads[SessionOf(t.id)].status = "open"
            /\ uploads'[SessionOf(t.id)].status = "done"]_vars

\* a publish step found nothing staged, and the final path is still free
C23_Witness ==
    /\ log.op = "publish"
    /\ log.outcome = "not found"
    /\ ~existsSync(fs, log.timer.uuidFilePath)
    /\ ~existsSync(fs, log.timer.newFilePath)
    /\ uploads[SessionOf(log.timer.id)].status = "done"

-----------------------------------------------------------------------------
(* Claims about failed concatenations, under SpecExisting *)

\* C25: whenever concatenateAndCleanup signals an error, the temporary file
\* (final path + ".tmp") no longer exists when the error reaches the caller.
C25_TempRemovedOnError ==
    (Concatenated /\ log.concat.threw) => log.concat.tempFilePath \notin DOMAIN fs

\* C29: a concatenation that fails leaves a file that existed at the final
\* path before it started in place, with its content unchanged, under every
\* duplicate policy.
C29_FailureKeepsExisting ==
    [][(/\ log'.op = "finish"
        /\ log'.concat # NoConcat
        /\ log'.concat.threw
        /\ IsFile(fs, log'.concat.finalFilePath))
          => Same(log'.concat.finalFilePath)]_vars

-----------------------------------------------------------------------------
(* Duplicate policies other than "number" *)

\* onDuplicateFiles absent, empty, "prevent", and two other values
OtherPolicies == {Absent, <<>>, StrPrevent, <<"N", "u", "m", "b", "e", "r">>,
                  <<"o", "v", "e", "r", "w", "r", "i", "t", "e">>}

InitOverwrite ==
    /\ fs \in {EmptyVolume, VolumeWith({NameAB})}
    /\ partedUploads = <<>>
    /\ now = 0
    /\ uploads = NoSessions
    /\ content = [i \in Sessions |-> <<i>>]
    /\ \E policy \in OtherPolicies :
          menu \in {{SingleMeta(NameAB, Absent, policy)},
                    {PartMeta(NameAB, n, 2, Absent, policy) : n \in 1..2}}
    /\ timers = {}
    /\ triggered = <<>>
    /\ queueItem = NoQueueItem
    /\ uploadQueue = NoUploadQueue
    /\ log = NoLog

SpecOverwrite == InitOverwrite /\ [][NextPath]_vars

\* C26: when onDuplicateFiles is absent or is any value other than "number",
\* the final name is the sanitized name itself, whether or not an entry has
\* it, and publishing onto an existing file of that name replaces its content
\* with that of the upload: the staged bytes of a whole-file session, the
\* concatenated bytes of a parted one.
C26_OverwriteKeepsName ==
    [][/\ (log'.op = "finish" /\ log'.kind = "single" /\ ~log'.threw) =>
             log'.timer.newFilePath = PathJoin(uploadsDir, sanitize(log'.metadata.filename))
       /\ (log'.op = "finish" /\ log'.concat # NoConcat) =>
             /\ log'.concat.finalFilePath =
                   PathJoin(uploadsDir, sanitize(log'.metadata.originalFilename))
             /\ ~log'.concat.threw
             /\ fs'[log'.concat.finalFilePath] =
                   File(MappedBytes(log'.uploadInfo.uploadIds, 1, 2))
       /\ Publishes =>
             /\ log'.outcome = "published"
             /\ fs'[log'.timer.newFilePath] = File(content[SessionOf(log'.timer.id)])]_vars

\* two whole-file sessions of a.b under "prevent" were created while no a.b
\* existed; the first was published, and the publish step of the other has
\* just replaced its content
C26_Witness ==
    /\ log.op = "publish" /\ log.outcome = "published"
    /\ timers = {}
    /\ \A i \in 1..2 : /\ uploads[i].status = "done"
                       /\ uploads[i].metadata.onDuplicateFiles = StrPrevent
                       /\ uploads[i].metadata.isPartedUpload = StrFalse
    /\ uploads[3].status = "none"
    /\ log.timer.id = UploadId(1)
    /\ fs[PathJoin(uploadsDir, NameAB)] = File(content[1])
    /\ DOMAIN fs = DOMAIN EmptyVolume \cup {PathJoin(uploadsDir, NameAB)}

-----------------------------------------------------------------------------
(* Claims about the directory listing, under SpecCrud *)

\* C27: the listing returned by GET /api/files never contains the staging
\* directory (UPLOAD_STAGING_DIR), for any listed path, the storage root
\* included.
C27_StagingNotListed ==
    (log.op = "list" /\ log.status = 200) => initUploadDir \notin log.items

-----------------------------------------------------------------------------
(***************************************************************************)
(* The upload queue on its own: one file of any size up to MaxFileSize is  *)
(* added, processNext starts its parts, and the parts' transfers succeed   *)
(* or fail in any order.                                                   *)
(***************************************************************************)
InitQueue ==
    /\ fs = EmptyVolume
    /\ partedUploads = << >>
    /\ now = 0
    /\ uploads = << >>
    /\ content = << >>
    /\ menu = {}
    /\ timers = {}
    /\ triggered = << >>
    /\ \E size \in 0 .. MaxFileSize : queueItem = addFiles(size)
    /\ uploadQueue = NoUploadQueue
    /\ log = NoLog

\* Parts whose transfer is still running.
Running == (1 .. queueItem.totalParts) \ (queueItem.succeeded \cup queueItem.failed)

ProcessNext ==
    /\ queueItem.status = "pending"
    /\ queueItem' = uploadFile(queueItem)
    /\ UNCHANGED <<fs, partedUploads, now, uploads, content, menu, timers,
                   triggered, uploadQueue, log>>

PartSucceeds ==
    /\ queueItem.status \in {"uploading", "completed", "error"}
    /\ \E n \in Running : queueItem' = onSuccess(queueItem, n)
    /\ UNCHANGED <<fs, partedUploads, now, uploads, content, menu, timers,
                   triggered, uploadQueue, log>>

PartFails ==
    /\ queueItem.status \in {"uploading", "completed", "error"}
    /\ \E n \in Running : queueItem' = onError(queueItem, n)
    /\ UNCHANGED <<fs, partedUploads, now, uploads, content, menu, timers,
                   triggered, uploadQueue, log>>

\* The removal timer set by handleUploadSuccess fires.
RemoveFromQueue ==
    /\ queueItem.removals > 0
    /\ queueItem' = [queueItem EXCEPT !.removals = @ - 1, !.queued = FALSE]
    /\ UNCHANGED <<fs, partedUploads, now, uploads, content, menu, timers,
                   triggered, uploadQueue, log>>

NextQueue == ProcessNext \/ PartSucceeds \/ PartFails \/ RemoveFromQueue

SpecQueue == InitQueue /\ [][NextQueue]_vars

\* C28: a queue item is 'completed' only once every one of its totalParts
\* parts has reported success, and handleUploadSuccess / onUploadComplete
\* has then fired exactly once for it.
C28_CompletedOnceAfterAllParts ==
    queueItem.status = "completed" =>
        /\ queueItem.succeeded = 1 .. queueItem.totalParts
        /\ queueItem.completions = 1

-----------------------------------------------------------------------------
\* C30: under the "number" policy a publish of a single-file session never
\* replaces the file that the publish of another session put at the same
\* final path, also when both sessions completed before either was moved.
C30_NumberedPublishesDistinct ==
    [][\A i \in Sessions :
          (/\ log'.op = "publish"
           /\ log'.timer.id = UploadId(i)
           /\ log'.outcome = "published"
           /\ uploads[i].metadata.onDuplicateFiles = StrNumber)
          => ~\E j \in Sessions \ {i} :
                /\ uploads[j].status = "done"
                /\ existsSync(fs, log'.timer.newFilePath)
                /\ fs[log'.timer.newFilePath] = File(content[j])]_vars

-----------------------------------------------------------------------------
\* C31: of two parted uploads of a file of the same name into different
\* directories whose completions interleave, each is reconstructed into its
\* own directory from its own parts: every part a concatenation reads was
\* declared for the directory the concatenation writes to.
C31_OwnPartsOwnDirectory ==
    [][(PartCompletes /\ log'.concat # NoConcat) =>
          \A id \in Ids(log'.uploadInfo) :
             partedTargetDir(uploads[SessionOf(id)].metadata)
                = Parent(log'.concat.finalFilePath)]_vars

-----------------------------------------------------------------------------
(* Parts of a.b whose clients declare any part number up to MaxSessions and
   any total below it: part numbers beyond the total, and parts of one file
   that disagree on the total *)

AnyPartMenu ==
    {PartMeta(NameAB, n, N, Absent, Absent) :
        n \in 1..MaxSessions, N \in 1..(MaxSessions - 1)}

InitDeclared ==
    /\ fs = EmptyVolume
    /\ partedUploads = <<>>
    /\ now = 0
    /\ uploads = NoSessions
    /\ content = [i \in Sessions |-> <<i>>]
    /\ menu = AnyPartMenu
    /\ timers = {}
    /\ triggered = <<>>
    /\ queueItem = NoQueueItem
    /\ uploadQueue = NoUploadQueue
    /\ log = NoLog

SpecDeclared == InitDeclared /\ [][NextConcat]_vars

\* C32: when a concatenation is triggered, the group's map from part number
\* to session has an entry for every part number 1..totalParts, whatever part
\* numbers and totals the clients declared.
C32_TriggeredGroupIsComplete ==
    [][(PartCompletes /\ log'.concat # NoConcat) =>
          \A n \in 1..parseInt(log'.metadata.totalParts).num :
             Number(n) \in DOMAIN log'.uploadInfo.uploadIds]_vars

-----------------------------------------------------------------------------
\* the group tracked under key is destroyed by this step: by the completion
\* whose concatenation succeeded, or by the sweep
Destroyed(key) ==
    /\ key \notin DOMAIN partedUploads'
    /\ \/ /\ PartCompletes
          /\ log'.metadata.originalFilename = key
          /\ log'.concat # NoConcat
          /\ ~log'.concat.threw
       \/ log'.op = "sweep" /\ key \in log'.reaped

\* the sessions that registered as parts of the file named key
RegisteredAs(key) ==
    {j \in Sessions :
        /\ uploads'[j].status = "done"
        /\ usesOriginalFilename(uploads'[j].metadata)
        /\ uploads'[j].metadata.isPartedUpload = StrTrue
        /\ uploads'[j].metadata.originalFilename = key}

\* C33: when a PartGroup is destroyed, nothing of the sessions that were ever
\* registered in it is left in staging, neither content nor sidecar, also of
\* a session whose part number was registered again by a later session.
C33_DestroyedGroupLeavesNothing ==
    [][\A key \in DOMAIN partedUploads \cup
                  (IF log'.op = "finish" THEN {log'.metadata.originalFilename} ELSE {}) :
          Destroyed(key) =>
             \A j \in RegisteredAs(key) :
                /\ StagedPath(UploadId(j)) \notin DOMAIN fs'
                /\ SidecarPath(UploadId(j)) \notin DOMAIN fs']_vars

-----------------------------------------------------------------------------
\* C34: under the "prevent" policy no publish replaces a file that is at the
\* final path already, neither the move of a whole-file session nor the
\* publication of a concatenated file.
C34_PreventNeverReplaces ==
    [][/\ (/\ Publishes
           /\ log'.outcome = "published"
           /\ uploads[SessionOf(log'.timer.id)].metadata.onDuplicateFiles = StrPrevent)
          => ~IsFile(fs, log'.timer.newFilePath)
       /\ (/\ PartCompletes
           /\ log'.concat # NoConcat
           /\ ~log'.concat.threw
           /\ log'.uploadInfo.metadata.onDuplicateFiles = StrPrevent)
          => ~IsFile(fs, log'.concat.finalFilePath)]_vars

-----------------------------------------------------------------------------
(* Names that are a path segment of their own: a client declares ".", ".." or
   "a" as the name of a whole file or of a file in one part, with and without
   a path, under no duplicate policy *)

DotNames == {<<".">>, <<".", ".">>, <<"a">>}

InitNames ==
    /\ fs = EmptyVolume
    /\ partedUploads = <<>>
    /\ now = 0
    /\ uploads = NoSessions
    /\ content = [i \in Sessions |-> <<i>>]
    /\ \E name \in DotNames, path \in {Absent, <<"d">>} :
          menu \in {{SingleMeta(name, path, Absent)},
                    {PartMeta(name, 1, 1, path, Absent)}}
    /\ timers = {}
    /\ triggered = <<>>
    /\ queueItem = NoQueueItem
    /\ uploadQueue = NoUploadQueue
    /\ log = NoLog

SpecNames == InitNames /\ [][NextPath]_vars

\* a descendant of the storage root
StrictlyInsideRoot(p) == InsideRoot(p) /\ p # uploadsDir

\* C35: the final path a completion resolves, and the temporary file a
\* concatenation writes, are strictly inside the storage root, whatever name
\* and path the client declared.
C35_PublishedInsideRoot ==
    [][/\ (log'.op = "finish" /\ log'.kind = "single" /\ ~log'.threw) =>
             StrictlyInsideRoot(log'.timer.newFilePath)
       /\ (log'.op = "finish" /\ log'.concat # NoConcat) =>
             /\ StrictlyInsideRoot(log'.concat.finalFilePath)
             /\ StrictlyInsideRoot(log'.concat.tempFilePath)]_vars

-----------------------------------------------------------------------------
(* Clients that declare the staging directory as their path and the id of a
   session as their name: whole files, or files in one part *)

StagingPath == <<"UPLOAD_STAGING_DIR">>

InitStaging ==
    /\ fs = EmptyVolume
    /\ partedUploads = <<>>
    /\ now = 0
    /\ uploads = NoSessions
    /\ content = [i \in Sessions |-> <<i>>]
    /\ menu \in {{SingleMeta(UploadId(j), StagingPath, Absent) : j \in Sessions},
                 {PartMeta(UploadId(j), 1, 1, StagingPath, Absent) : j \in Sessions}}
    /\ timers = {}
    /\ triggered = <<>>
    /\ queueItem = NoQueueItem
    /\ uploadQueue = NoUploadQueue
    /\ log = NoLog

SpecStaging == InitStaging /\ [][NextPath]_vars

InsideStaging(p) == IsPrefix(initUploadDir, p)

\* the staged content and the sidecar of every session but i are as before
OthersStagedSame(i) ==
    \A j \in Sessions \ {i} :
        Same(StagedPath(UploadId(j))) /\ Same(SidecarPath(UploadId(j)))

\* C36: the final path of a whole-file publish and of a concatenation is never
\* in the staging directory, and a publish leaves the staged content and the
\* sidecar of every other session as they were.
C36_NoPublishIntoStaging ==
    [][/\ (log'.op = "finish" /\ log'.kind = "single" /\ ~log'.threw) =>
             ~InsideStaging(log'.timer.newFilePath)
       /\ (log'.op = "finish" /\ log'.concat # NoConcat) =>
             /\ ~InsideStaging(log'.concat.finalFilePath)
             /\ log'.concat.threw \/
                   \A j \in Sessions : UploadId(j) \notin Ids(log'.uploadInfo) =>
                      Same(StagedPath(UploadId(j))) /\ Same(SidecarPath(UploadId(j)))
       /\ Publishes => OthersStagedSame(SessionOf(log'.timer.id))]_vars

-----------------------------------------------------------------------------
(* The guard under "prevent" for names that are a path segment of their own
   and for a.b, with a path whose directory may not exist yet *)

RefusedPaths == {<<"d">>, <<"d", "/", "d">>}

InitRefused ==
    /\ fs \in {EmptyVolume, VolumeWith({NameAB})}
    /\ partedUploads = <<>>
    /\ now = 0
    /\ uploads = NoSessions
    /\ content = [i \in Sessions |-> <<i>>]
    /\ \E name \in DotNames \cup {NameAB}, path \in RefusedPaths :
          menu = {SingleMeta(name, Absent, StrPrevent),
                  SingleMeta(name, path, StrPrevent)}
    /\ timers = {}
    /\ triggered = <<>>
    /\ queueItem = NoQueueItem
    /\ uploadQueue = NoUploadQueue
    /\ log = NoLog

SpecRefused == InitRefused /\ [][NextPath]_vars

\* C37: a creation request that the guard refuses with 409 leaves the storage
\* tree as it was; the refused request creates no directory.
C37_RefusalChangesNothing ==
    [][(log'.op = "create" /\ log'.response = "409") => fs' = fs]_vars

-----------------------------------------------------------------------------
(***************************************************************************)
(* The upload queue with several items: files of one or two parts are      *)
(* added, up to MaxItems of them; the transfers of started parts succeed   *)
(* or fail in any order, the user cancels items, and the timers set by the *)
(* handlers fire.                                                          *)
(***************************************************************************)
MaxItems == 3

\* sizes of a file of one part and of a file of two parts
QueueFileSizes == {0, 1}

InitQueues ==
    /\ fs = EmptyVolume
    /\ partedUploads = << >>
    /\ now = 0
    /\ uploads = << >>
    /\ content = << >>
    /\ menu = {}
    /\ timers = {}
    /\ triggered = << >>
    /\ queueItem = NoQueueItem
    /\ uploadQueue = NoUploadQueue
    /\ log = NoLog

\* the parts of item id whose transfer is still running
RunningOf(id) ==
    LET item == uploadQueue.items[id]
    IN IF item.status = "pending" THEN {}
       ELSE (1 .. item.totalParts) \ (item.succeeded \cup item.failed)

QueueUnchanged ==
    UNCHANGED <<fs, partedUploads, now, uploads, content, menu, timers,
                triggered, queueItem, log>>

AddFiles ==
    /\ Len(uploadQueue.items) < MaxItems
    /\ \E size \in QueueFileSizes :
          uploadQueue' = addFilesToQueue(uploadQueue, size)
    /\ QueueUnchanged

ItemPartSucceeds ==
    /\ \E id \in DOMAIN uploadQueue.items : \E n \in RunningOf(id) :
          uploadQueue' = afterCallback(uploadQueue, id,
                                       onSuccess(uploadQueue.items[id], n))
    /\ QueueUnchanged

ItemPartFails ==
    /\ \E id \in DOMAIN uploadQueue.items : \E n \in RunningOf(id) :
          uploadQueue' = afterCallback(uploadQueue, id,
                                       onError(uploadQueue.items[id], n))
    /\ QueueUnchanged

\* a setTimeout(processNext) callback fires
ProcessNextTimer ==
    /\ uploadQueue.processTimers > 0
    /\ uploadQueue' = processNext([uploadQueue EXCEPT !.processTimers = @ - 1])
    /\ QueueUnchanged

\* the removal timer of a completed item fires
RemoveTimer ==
    /\ \E id \in DOMAIN uploadQueue.items :
          /\ uploadQueue.items[id].removals > 0
          /\ uploadQueue' =
                removeFromQueue([uploadQueue EXCEPT !.items[id].removals = @ - 1], id)
    /\ QueueUnchanged

CancelUpload ==
    /\ \E id \in DOMAIN uploadQueue.items :
          /\ uploadQueue.items[id].queued
          /\ uploadQueue' = cancelUpload(uploadQueue, id)
    /\ QueueUnchanged

NextQueues ==
    \/ AddFiles
    \/ ItemPartSucceeds
    \/ ItemPartFails
    \/ ProcessNextTimer
    \/ RemoveTimer
    \/ CancelUpload

SpecQueues == InitQueues /\ [][NextQueues]_vars

\* the items in the queue that are uploading
Uploading ==
    {id \in DOMAIN uploadQueue.items :
        uploadQueue.items[id].queued /\ uploadQueue.items[id].status = "uploading"}

\* C38: at most one item of the queue has the status 'uploading'.
C38_OneUploadAtATime == Cardinality(Uploading) <= 1

====
